---- MODULE Spec2Model ----
(***************************************************************************)
(* fast-graph: the default Graph (two slot maps, nodes and edges), its     *)
(* GraphInterface operations, the DepthFirstSearch iterator and            *)
(* connected_components.                                                   *)
(***************************************************************************)
EXTENDS Integers, Sequences, FiniteSets, TLC

(* ------------------------------ bounds -------------------------------- *)
\* largest number of node keys / edge keys issued in a run that also removes
MaxNodeKeys == 2
MaxEdgeKeys == 2
\* largest number of nodes / edges of a freely built graph that is traversed
MaxBuildNodes == 3
MaxBuildEdges == 2
\* largest number of nodes / edges of a graph traversed under fairness
MaxFairNodes == 2
MaxFairEdges == 2
\* largest number of node keys / edge keys issued in a run with batch calls
MaxBatchNodeKeys == 2
MaxBatchEdgeKeys == 1
\* largest number of node keys / edge keys issued in a run with categories
MaxCatNodeKeys == 3
MaxCatEdgeKeys == 2
\* longest list filled by push_back alone, and the largest value pushed
MaxPushLen == 4
MaxPushValue == 2
\* largest number of indexes handed out by a list under all its operations
MaxListKeys == 3
\* largest number of slots of the list passed to extend_back
MaxOtherKeys == 2

\* largest number of items of the vector-backed list
MaxVecLen == 3

\* values pushed onto the vector-backed list are 1..MaxVecValue
MaxVecValue == 2

VARIABLES nodes, edges, dfs, yielded, lastRun, ret, panicked, issuedNodes, issuedEdges,
          categories, bfs, llist, other, issuedItems, vlist

vars == <<nodes, edges, dfs, yielded, lastRun, ret, panicked, issuedNodes, issuedEdges,
          categories, bfs, llist, other, issuedItems, vlist>>

\* the name map of a CategorizedGraph, the breadth-first iterator, and the
\* two LinkedLists with the indexes handed out for them, and the
\* vector-backed LinkedList
extVars == <<categories, bfs, llist, other, issuedItems, vlist>>

(* ------------------------------ slot map ------------------------------ *)
\* A key is an index and a version; index 0 is the sentinel slot, so the
\* first real slot has index 1 and is slots[1].
Key(i, v) == [idx |-> i, version |-> v]

\* a key that names nothing: index 0 is the sentinel slot, which holds no value
AbsentNode == Key(0, 1)

AbsentEdge == Key(0, 1)

None == [none |-> TRUE]

SlotMap_with_key == [slots |-> <<>>, free_head |-> 1]

\* a freed slot handed out again under the version of its last occupant
OccupiedVersion_Reused(v) == IF v % 2 = 0 THEN v - 1 ELSE v

\* version | 1
OccupiedVersion(v) == IF v % 2 = 0 THEN v + 1 ELSE v

\* a lookup that compares the index and not the version
SlotMap_contains_key_AnyVersion(sm, k) ==
  /\ k.idx \in 1..Len(sm.slots)
  /\ sm.slots[k.idx].version % 2 = 1

SlotMap_contains_key(sm, k) ==
  /\ k.idx \in 1..Len(sm.slots)
  /\ sm.slots[k.idx].version = k.version

SlotMap_get(sm, k) == IF SlotMap_contains_key(sm, k) THEN sm.slots[k.idx].value ELSE None

\* the key the next insertion returns
SlotMap_next_key(sm) ==
  IF sm.free_head <= Len(sm.slots)
  THEN Key(sm.free_head, OccupiedVersion(sm.slots[sm.free_head].version))
  ELSE Key(Len(sm.slots) + 1, 1)

SlotMap_insert(sm, value) ==
  LET k == SlotMap_next_key(sm) IN
  IF sm.free_head <= Len(sm.slots)
  THEN [slots |-> [sm.slots EXCEPT ![k.idx] =
                     [version |-> k.version, next_free |-> 0, value |-> value]],
        free_head |-> sm.slots[k.idx].next_free]
  ELSE [slots |-> Append(sm.slots, [version |-> 1, next_free |-> 0, value |-> value]),
        free_head |-> k.idx + 1]

SlotMap_remove(sm, k) ==
  IF SlotMap_contains_key(sm, k)
  THEN [slots |-> [sm.slots EXCEPT ![k.idx] =
                     [version |-> k.version + 1,
                      next_free |-> sm.free_head,
                      value |-> None]],
        free_head |-> k.idx]
  ELSE sm

SlotMap_set(sm, k, value) == [sm EXCEPT !.slots[k.idx].value = value]

RECURSIVE KeysFrom(_, _)
KeysFrom(sm, i) ==
  IF i > Len(sm.slots) THEN <<>>
  ELSE IF sm.slots[i].version % 2 = 1
       THEN <<Key(i, sm.slots[i].version)>> \o KeysFrom(sm, i + 1)
       ELSE KeysFrom(sm, i + 1)

\* keys() walks the slots in index order and skips the vacant ones
SlotMap_keys(sm) == KeysFrom(sm, 1)

SlotMap_len(sm) == Len(SlotMap_keys(sm))

Range(s) == {s[i] : i \in 1..Len(s)}

(* ---------------------------- entities -------------------------------- *)
Node_new(id, data) == [id |-> id, data |-> data, connections |-> <<>>]

\* the edge id put in front of the list
Node_add_connection_Front(node, edge_id) == [node EXCEPT !.connections = <<edge_id>> \o @]

Node_add_connection(node, edge_id) == [node EXCEPT !.connections = Append(@, edge_id)]

Edge_new(id, from, to) == [id |-> id, from |-> from, to |-> to]

(* ------------------------ GraphInterface reads ------------------------ *)
NodeLive(id) == SlotMap_contains_key(nodes, id)

EdgeLive(id) == SlotMap_contains_key(edges, id)

node(id) == IF NodeLive(id) THEN SlotMap_get(nodes, id) ELSE "NodeNotFound"

edge(id) == IF EdgeLive(id) THEN SlotMap_get(edges, id) ELSE "EdgeNotFound"

\* node(id) / node_mut(id) and edge(id) / edge_mut(id) return Ok
NodeFound(id) == SlotMap_get(nodes, id) # None

EdgeFound(id) == SlotMap_get(edges, id) # None

node_count == SlotMap_len(nodes)

LiveNodes == Range(SlotMap_keys(nodes))

LiveEdges == Range(SlotMap_keys(edges))

(* ------------------------------- Init --------------------------------- *)
NoDfs == [active |-> FALSE]

NoRun == [valid |-> FALSE]

Ret(op, val) == [op |-> op, val |-> val]

\* HashMap::new(): no name is mapped
NoCategories == [name \in {} |-> None]

NoBfs == [active |-> FALSE]

\* LinkedList::new()
LinkedList_new == [head |-> None, tail |-> None, items |-> SlotMap_with_key]

\* the LinkedList over a Vec: items is the vector, an index a position from 0
VecLinkedList_new == [head |-> None, tail |-> None, items |-> <<>>]

Init ==
  /\ nodes = SlotMap_with_key
  /\ edges = SlotMap_with_key
  /\ dfs = NoDfs
  /\ yielded = <<>>
  /\ lastRun = NoRun
  /\ ret = Ret("new", "Ok")
  /\ panicked = FALSE
  /\ issuedNodes = {}
  /\ issuedEdges = {}
  /\ categories = NoCategories
  /\ bfs = NoBfs
  /\ llist = LinkedList_new
  /\ other = LinkedList_new
  /\ issuedItems = {}
  /\ vlist = VecLinkedList_new

\* mutation needs the exclusive borrow: no iterator is alive
CanMutate == ~panicked /\ ~dfs.active /\ ~bfs.active

(* ----------------------------- add_node ------------------------------- *)
add_node(data) ==
  /\ CanMutate
  /\ LET id == SlotMap_next_key(nodes) IN
     /\ nodes' = SlotMap_insert(nodes, Node_new(id, data))
     /\ ret' = Ret("add_node", id)
     /\ issuedNodes' = issuedNodes \cup {id}
  /\ lastRun' = NoRun
  /\ UNCHANGED <<edges, dfs, yielded, panicked, issuedEdges>>
  /\ UNCHANGED extVars

(* ----------------------------- add_edge ------------------------------- *)
\* the second endpoint is updated only when the first one is live
AddConnections_Nested(sm, from, to, id) ==
  IF SlotMap_contains_key(sm, from)
  THEN LET sm1 == SlotMap_set(sm, from, Node_add_connection(SlotMap_get(sm, from), id))
       IN IF SlotMap_contains_key(sm1, to)
          THEN SlotMap_set(sm1, to, Node_add_connection(SlotMap_get(sm1, to), id))
          ELSE sm1
  ELSE sm

\* the node arena after the two `if let Some(node) = self.nodes.get_mut(..)`
AddConnections(sm, from, to, id) ==
  LET sm1 == IF SlotMap_contains_key(sm, from)
             THEN SlotMap_set(sm, from, Node_add_connection(SlotMap_get(sm, from), id))
             ELSE sm
  IN IF SlotMap_contains_key(sm1, to)
     THEN SlotMap_set(sm1, to, Node_add_connection(SlotMap_get(sm1, to), id))
     ELSE sm1

add_edge(from, to) ==
  /\ CanMutate
  /\ LET id == SlotMap_next_key(edges) IN
     /\ edges' = SlotMap_insert(edges, Edge_new(id, from, to))
     /\ nodes' = AddConnections(nodes, from, to, id)
     /\ ret' = [op |-> "add_edge", val |-> id, from |-> from, to |-> to]
     /\ issuedEdges' = issuedEdges \cup {id}
  /\ lastRun' = NoRun
  /\ UNCHANGED <<dfs, yielded, panicked, issuedNodes>>
  /\ UNCHANGED extVars

(* ---------------------------- remove_edge ----------------------------- *)
remove_edge(id) ==
  /\ CanMutate
  /\ edges' = SlotMap_remove(edges, id)
  /\ ret' = Ret("remove_edge", IF EdgeLive(id) THEN "Ok" ELSE "EdgeNotFound")
  /\ lastRun' = NoRun
  /\ UNCHANGED <<nodes, dfs, yielded, panicked, issuedNodes, issuedEdges>>
  /\ UNCHANGED extVars

(* ---------------------------- remove_node ----------------------------- *)
\* the loop over node.connections: each edge is removed, and the first one
\* that is not in the arena ends the call with EdgeNotFound (the `?`)
RECURSIVE RemoveConnections(_, _, _)
RemoveConnections(sm, connections, i) ==
  IF i > Len(connections) THEN [edges |-> sm, val |-> "Ok"]
  ELSE IF SlotMap_contains_key(sm, connections[i])
       THEN RemoveConnections(SlotMap_remove(sm, connections[i]), connections, i + 1)
       ELSE [edges |-> sm, val |-> "EdgeNotFound"]

remove_node(id) ==
  /\ CanMutate
  /\ IF NodeLive(id)
     THEN LET r == RemoveConnections(edges, node(id).connections, 1) IN
          /\ nodes' = SlotMap_remove(nodes, id)
          /\ edges' = r.edges
          /\ ret' = Ret("remove_node", r.val)
     ELSE /\ UNCHANGED <<nodes, edges>>
          /\ ret' = Ret("remove_node", "NodeNotFound")
  /\ lastRun' = NoRun
  /\ UNCHANGED <<dfs, yielded, panicked, issuedNodes, issuedEdges>>
  /\ UNCHANGED extVars

(* ---------------------------- remove_nodes ---------------------------- *)
\* Graph::remove_node on the arenas of g
Graph_remove_node(g, id) ==
  IF SlotMap_contains_key(g.nodes, id)
  THEN LET r == RemoveConnections(g.edges, SlotMap_get(g.nodes, id).connections, 1) IN
       [nodes |-> SlotMap_remove(g.nodes, id), edges |-> r.edges, val |-> r.val]
  ELSE [nodes |-> g.nodes, edges |-> g.edges, val |-> "NodeNotFound"]

\* the loop goes on behind an id that fails and returns the first error
RECURSIVE RemoveNodes_KeepsGoing(_, _, _)
RemoveNodes_KeepsGoing(g, ids, i) ==
  IF i > Len(ids) THEN [nodes |-> g.nodes, edges |-> g.edges, val |-> "Ok"]
  ELSE LET r == Graph_remove_node(g, ids[i])
           rest == RemoveNodes_KeepsGoing(r, ids, i + 1)
       IN IF r.val # "Ok" THEN [rest EXCEPT !.val = r.val] ELSE rest

\* for id in ids { self.remove_node(*id)?; } Ok(())
RECURSIVE RemoveNodes(_, _, _)
RemoveNodes(g, ids, i) ==
  IF i > Len(ids) THEN [nodes |-> g.nodes, edges |-> g.edges, val |-> "Ok"]
  ELSE LET r == Graph_remove_node(g, ids[i]) IN
       IF r.val # "Ok" THEN r ELSE RemoveNodes(r, ids, i + 1)

\* ret keeps, next to the argument and the result, node_count() as it was
\* before the call
remove_nodes(ids) ==
  /\ CanMutate
  /\ LET r == RemoveNodes([nodes |-> nodes, edges |-> edges], ids, 1) IN
     /\ nodes' = r.nodes
     /\ edges' = r.edges
     /\ ret' = [op |-> "remove_nodes", val |-> r.val, ids |-> ids, count |-> node_count]
  /\ lastRun' = NoRun
  /\ UNCHANGED <<dfs, yielded, panicked, issuedNodes, issuedEdges>>
  /\ UNCHANGED extVars

(* ------------------------------ add_nodes ----------------------------- *)
\* the ids pushed in front of the result instead of at its end
RECURSIVE AddNodesLoop_Reversed(_, _, _, _)
AddNodesLoop_Reversed(sm, data, i, ids) ==
  IF i > Len(data) THEN [nodes |-> sm, ids |-> ids]
  ELSE LET id == SlotMap_next_key(sm) IN
       AddNodesLoop_Reversed(SlotMap_insert(sm, Node_new(id, data[i])), data, i + 1,
                             <<id>> \o ids)

\* for data in data { let node = self.add_node(data.clone()); nodes.push(node) }
RECURSIVE AddNodesLoop(_, _, _, _)
AddNodesLoop(sm, data, i, ids) ==
  IF i > Len(data) THEN [nodes |-> sm, ids |-> ids]
  ELSE LET id == SlotMap_next_key(sm) IN
       AddNodesLoop(SlotMap_insert(sm, Node_new(id, data[i])), data, i + 1,
                    Append(ids, id))

add_nodes(data) ==
  /\ CanMutate
  /\ LET r == AddNodesLoop(nodes, data, 1, <<>>) IN
     /\ nodes' = r.nodes
     /\ ret' = [op |-> "add_nodes", val |-> r.ids, data |-> data]
     /\ issuedNodes' = issuedNodes \cup Range(r.ids)
  /\ lastRun' = NoRun
  /\ UNCHANGED <<edges, dfs, yielded, panicked, issuedEdges>>
  /\ UNCHANGED extVars

(* ------------------------- add_nodes_and_edges ------------------------- *)
\* add_edges_with_data on the graph g = [nodes, edges]: add_edge for every
\* (from, to) of data from the i-th on, the ids pushed on acc
RECURSIVE add_edges_with_data(_, _, _, _)
add_edges_with_data(g, data, i, acc) ==
  IF i > Len(data) THEN [g |-> g, ids |-> acc]
  ELSE LET id == SlotMap_next_key(g.edges) IN
       add_edges_with_data(
         [nodes |-> AddConnections(g.nodes, data[i].from, data[i].to, id),
          edges |-> SlotMap_insert(g.edges, Edge_new(id, data[i].from, data[i].to))],
         data, i + 1, Append(acc, id))

\* the loop of add_nodes_and_edges_with_data over node_data from the i-th
\* entry on; created collects every edge id made, for issuedEdges
RECURSIVE AddNodesAndEdgesLoop(_, _, _, _, _, _)
AddNodesAndEdgesLoop(g, node_data, i, added_nodes, added_edges, created) ==
  IF i > Len(node_data)
  THEN [g |-> g, added_nodes |-> added_nodes, added_edges |-> added_edges,
        created |-> created]
  ELSE LET node_id == SlotMap_next_key(g.nodes)
           g1 == [nodes |-> SlotMap_insert(g.nodes, Node_new(node_id, node_data[i].data)),
                  edges |-> g.edges]
           connections == node_data[i].targets
           es == [j \in 1..Len(connections) |-> [from |-> node_id, to |-> connections[j]]]
           r == add_edges_with_data(g1, es, 1, <<>>)
       IN AddNodesAndEdgesLoop(r.g, node_data, i + 1, Append(added_nodes, node_id),
                               r.ids, created \cup Range(r.ids))

add_nodes_and_edges(list) ==
  /\ CanMutate
  /\ LET r == AddNodesAndEdgesLoop([nodes |-> nodes, edges |-> edges], list, 1,
                                   <<>>, <<>>, {})
     IN /\ nodes' = r.g.nodes
        /\ edges' = r.g.edges
        /\ ret' = [op |-> "add_nodes_and_edges",
                   val |-> [nodes |-> r.added_nodes, edges |-> r.added_edges],
                   list |-> list]
        /\ issuedNodes' = issuedNodes \cup Range(r.added_nodes)
        /\ issuedEdges' = issuedEdges \cup r.created
  /\ lastRun' = NoRun
  /\ UNCHANGED <<dfs, yielded, panicked>>
  /\ UNCHANGED extVars

(* --------------------------- CategorizedGraph -------------------------- *)
\* N::default(), the payload of a category node made by add_to_category
DefaultData == -1

\* self.categories.get(category_name)
category_id_by_name(category_name) ==
  IF category_name \in DOMAIN categories THEN categories[category_name] ELSE None

\* self.categories.insert(category_name.to_string(), category_id)
insert_category_id_by_name(map, category_name, category_id) ==
  [name \in DOMAIN map \cup {category_name} |->
     IF name = category_name THEN category_id ELSE map[name]]

\* on st = [nodes, edges, categories]: Err(CategoryNotFound) when the
\* category node does not resolve, else add_edges of (category_id, node)
\* for every node of ns
add_to_category_by_id(st, category_id, ns) ==
  IF ~SlotMap_contains_key(st.nodes, category_id)
  THEN [st |-> st, ok |-> FALSE, ids |-> <<>>]
  ELSE LET es == [j \in 1..Len(ns) |-> [from |-> category_id, to |-> ns[j]]]
           r == add_edges_with_data([nodes |-> st.nodes, edges |-> st.edges], es, 1, <<>>)
       IN [st |-> [st EXCEPT !.nodes = r.g.nodes, !.edges = r.g.edges],
           ok |-> TRUE, ids |-> r.ids]

\* Categorized::add_to_category on st: the existing category node is used,
\* or a node with the default payload is added and entered in the map;
\* add_to_category_by_id(..).unwrap() panics on Err
AddToCategory(st, category_name, ns) ==
  IF category_name \in DOMAIN st.categories
  THEN LET category_node == st.categories[category_name]
           r == add_to_category_by_id(st, category_node, ns)
       IN [st |-> r.st, val |-> category_node, panic |-> ~r.ok,
           newNodes |-> {}, newEdges |-> Range(r.ids)]
  ELSE LET category_node == SlotMap_next_key(st.nodes)
           st1 == [st EXCEPT !.nodes = SlotMap_insert(@, Node_new(category_node, DefaultData))]
           r == add_to_category_by_id(st1, category_node, ns)
       IN [st |-> [r.st EXCEPT !.categories =
                     insert_category_id_by_name(@, category_name, category_node)],
           val |-> category_node, panic |-> ~r.ok,
           newNodes |-> {category_node}, newEdges |-> Range(r.ids)]

add_to_category(category_name, ns) ==
  /\ CanMutate
  /\ LET r == AddToCategory([nodes |-> nodes, edges |-> edges, categories |-> categories],
                            category_name, ns)
     IN /\ nodes' = r.st.nodes
        /\ edges' = r.st.edges
        /\ categories' = r.st.categories
        /\ panicked' = r.panic
        /\ ret' = [op |-> "add_to_category", ok |-> ~r.panic, val |-> r.val,
                   name |-> category_name, nodes |-> ns]
        /\ issuedNodes' = issuedNodes \cup r.newNodes
        /\ issuedEdges' = issuedEdges \cup r.newEdges
  /\ lastRun' = NoRun
  /\ UNCHANGED <<dfs, yielded, bfs, llist, other, issuedItems, vlist>>

\* the name is looked up after the node has been added
create_category_AddsFirst(category, ns, data) ==
  /\ CanMutate
  /\ LET category_node == SlotMap_next_key(nodes)
         st1 == [nodes |-> SlotMap_insert(nodes, Node_new(category_node, data)),
                 edges |-> edges, categories |-> categories]
     IN IF category \in DOMAIN categories
        THEN /\ nodes' = st1.nodes
             /\ ret' = [op |-> "create_category", ok |-> FALSE, val |-> None,
                        name |-> category, nodes |-> ns, data |-> data]
             /\ issuedNodes' = issuedNodes \cup {category_node}
             /\ UNCHANGED <<edges, categories, panicked, issuedEdges>>
        ELSE LET r == AddToCategory(st1, category, ns) IN
             /\ nodes' = r.st.nodes
             /\ edges' = r.st.edges
             /\ categories' = r.st.categories
             /\ panicked' = r.panic
             /\ ret' = [op |-> "create_category", ok |-> TRUE, val |-> category_node,
                        name |-> category, nodes |-> ns, data |-> data]
             /\ issuedNodes' = issuedNodes \cup {category_node} \cup r.newNodes
             /\ issuedEdges' = issuedEdges \cup r.newEdges
  /\ lastRun' = NoRun
  /\ UNCHANGED <<dfs, yielded, bfs, llist, other, issuedItems, vlist>>

\* CategorizedGraph::create_category: an existing name is an Err; else
\* add_node(data), then add_to_category(category, nodes), then
\* Ok(category_node)
create_category(category, ns, data) ==
  /\ CanMutate
  /\ IF category \in DOMAIN categories
     THEN /\ ret' = [op |-> "create_category", ok |-> FALSE, val |-> None,
                     name |-> category, nodes |-> ns, data |-> data]
          /\ UNCHANGED <<nodes, edges, categories, panicked, issuedNodes, issuedEdges>>
     ELSE LET category_node == SlotMap_next_key(nodes)
              st1 == [nodes |-> SlotMap_insert(nodes, Node_new(category_node, data)),
                      edges |-> edges, categories |-> categories]
              r == AddToCategory(st1, category, ns)
          IN /\ nodes' = r.st.nodes
             /\ edges' = r.st.edges
             /\ categories' = r.st.categories
             /\ panicked' = r.panic
             /\ ret' = [op |-> "create_category", ok |-> TRUE, val |-> category_node,
                        name |-> category, nodes |-> ns, data |-> data]
             /\ issuedNodes' = issuedNodes \cup {category_node} \cup r.newNodes
             /\ issuedEdges' = issuedEdges \cup r.newEdges
  /\ lastRun' = NoRun
  /\ UNCHANGED <<dfs, yielded, bfs, llist, other, issuedItems, vlist>>

\* the to ends of the connections[i..] that resolve (filter_map, map)
RECURSIVE ConnectionTargets(_, _)
ConnectionTargets(connections, i) ==
  IF i > Len(connections) THEN <<>>
  ELSE IF EdgeLive(connections[i])
       THEN <<edge(connections[i]).to>> \o ConnectionTargets(connections, i + 1)
       ELSE ConnectionTargets(connections, i + 1)

nodes_by_category_id(category) ==
  IF NodeLive(category) THEN ConnectionTargets(node(category).connections, 1) ELSE <<>>

nodes_by_category(category) ==
  IF category \in DOMAIN categories
  THEN nodes_by_category_id(categories[category])
  ELSE <<>>

\* node.connections.retain(|&x| x != id) on the node n, if it resolves
Retain(sm, n, id) ==
  IF SlotMap_contains_key(sm, n)
  THEN SlotMap_set(sm, n, [SlotMap_get(sm, n) EXCEPT
                             !.connections = SelectSeq(@, LAMBDA x : x # id)])
  ELSE sm

\* the id is retracted from the from end only
RemoveEdgeRetracting_FromOnly(g, id) ==
  IF ~SlotMap_contains_key(g.edges, id) THEN [g |-> g, ok |-> FALSE]
  ELSE LET e == SlotMap_get(g.edges, id) IN
       [g |-> [nodes |-> Retain(g.nodes, e.from, id),
               edges |-> SlotMap_remove(g.edges, id)],
        ok |-> TRUE]

\* CategorizedGraph::remove_edge on g = [nodes, edges]: Err(EdgeNotFound)
\* when the edge does not resolve; else the id leaves the connections of
\* both ends, then the edge leaves the arena
RemoveEdgeRetracting(g, id) ==
  IF ~SlotMap_contains_key(g.edges, id) THEN [g |-> g, ok |-> FALSE]
  ELSE LET e == SlotMap_get(g.edges, id) IN
       [g |-> [nodes |-> Retain(Retain(g.nodes, e.from, id), e.to, id),
               edges |-> SlotMap_remove(g.edges, id)],
        ok |-> TRUE]

CategorizedGraph_remove_edge(id) ==
  /\ CanMutate
  /\ LET r == RemoveEdgeRetracting([nodes |-> nodes, edges |-> edges], id) IN
     /\ nodes' = r.g.nodes
     /\ edges' = r.g.edges
     /\ ret' = [op |-> "remove_edge", val |-> IF r.ok THEN "Ok" ELSE "EdgeNotFound"]
  /\ lastRun' = NoRun
  /\ UNCHANGED <<dfs, yielded, panicked, issuedNodes, issuedEdges>>
  /\ UNCHANGED extVars

\* for edge_id in node.connections: self.remove_edge(edge_id).or_else(Ok)
RECURSIVE RemoveEdgesOf(_, _, _)
RemoveEdgesOf(g, connections, i) ==
  IF i > Len(connections) THEN g
  ELSE RemoveEdgesOf(RemoveEdgeRetracting(g, connections[i]).g, connections, i + 1)

CategorizedGraph_remove_node(id) ==
  /\ CanMutate
  /\ IF NodeLive(id)
     THEN LET g == RemoveEdgesOf([nodes |-> SlotMap_remove(nodes, id), edges |-> edges],
                                node(id).connections, 1)
          IN /\ nodes' = g.nodes
             /\ edges' = g.edges
             /\ ret' = [op |-> "remove_node", val |-> "Ok"]
     ELSE /\ UNCHANGED <<nodes, edges>>
          /\ ret' = [op |-> "remove_node", val |-> "NodeNotFound"]
  /\ lastRun' = NoRun
  /\ UNCHANGED <<dfs, yielded, panicked, issuedNodes, issuedEdges>>
  /\ UNCHANGED extVars

\* CategorizedGraph::category: the mapped id is looked up with unwrap()
category(name) ==
  IF name \notin DOMAIN categories THEN [val |-> None, panic |-> FALSE]
  ELSE IF NodeLive(categories[name])
       THEN [val |-> node(categories[name]), panic |-> FALSE]
       ELSE [val |-> None, panic |-> TRUE]

(* ------------------------- DepthFirstSearch --------------------------- *)
Last(s) == s[Len(s)]

Front(s) == SubSeq(s, 1, Len(s) - 1)

\* an iterator that starts with the visited set of the last completed run
DepthFirstSearch_new_KeepsVisited(start) ==
  [active |-> TRUE, start |-> start,
   visited |-> IF lastRun.valid THEN Range(lastRun.seq) \ {start} ELSE {},
   stack |-> <<start>>, cyclic |-> FALSE]

DepthFirstSearch_new(start) ==
  [active |-> TRUE, start |-> start, visited |-> {}, stack |-> <<start>>, cyclic |-> FALSE]

\* the connections walked first to last (iter() without rev())
RECURSIVE PushForward(_, _, _, _)
PushForward(connections, j, visited, stack) ==
  IF j > Len(connections) THEN [stack |-> stack, panic |-> FALSE]
  ELSE IF ~EdgeLive(connections[j]) THEN [stack |-> stack, panic |-> TRUE]
  ELSE LET to_id == edge(connections[j]).to IN
       PushForward(connections, j + 1, visited,
                   IF to_id \notin visited THEN Append(stack, to_id) ELSE stack)

PushUnvisited_NoRev(connections, i, visited, stack) ==
  PushForward(connections, 1, visited, stack)

\* the edge followed to its from end instead of its to end
RECURSIVE PushUnvisited_From(_, _, _, _)
PushUnvisited_From(connections, i, visited, stack) ==
  IF i = 0 THEN [stack |-> stack, panic |-> FALSE]
  ELSE IF ~EdgeLive(connections[i]) THEN [stack |-> stack, panic |-> TRUE]
  ELSE LET to_id == edge(connections[i]).from IN
       PushUnvisited_From(connections, i - 1, visited,
                          IF to_id \notin visited THEN Append(stack, to_id) ELSE stack)

\* for edge_id in connections.iter().rev(): i runs from the last connection to
\* the first; a connection that is not in the edge arena panics (unwrap)
RECURSIVE PushUnvisited(_, _, _, _)
PushUnvisited(connections, i, visited, stack) ==
  IF i = 0 THEN [stack |-> stack, panic |-> FALSE]
  ELSE IF ~EdgeLive(connections[i]) THEN [stack |-> stack, panic |-> TRUE]
  ELSE LET to_id == edge(connections[i]).to IN
       PushUnvisited(connections, i - 1, visited,
                     IF to_id \notin visited THEN Append(stack, to_id) ELSE stack)

\* next() without self.visited.insert(node_id)
RECURSIVE DepthFirstSearch_next_NoInsert(_)
DepthFirstSearch_next_NoInsert(it) ==
  IF it.stack = <<>>
  THEN [it |-> it, out |-> None, panic |-> FALSE]
  ELSE LET node_id == Last(it.stack)
           popped == Front(it.stack)
       IN IF node_id \notin it.visited
          THEN IF ~NodeLive(node_id)
               THEN [it |-> [it EXCEPT !.stack = popped], out |-> None, panic |-> TRUE]
               ELSE LET p == PushUnvisited(node(node_id).connections,
                                           Len(node(node_id).connections),
                                           it.visited, popped)
                    IN [it |-> [it EXCEPT !.stack = p.stack],
                        out |-> IF p.panic THEN None ELSE node_id,
                        panic |-> p.panic]
          ELSE DepthFirstSearch_next_NoInsert([it EXCEPT !.stack = popped, !.cyclic = TRUE])

\* a popped id that is already visited is discarded and the flag is left
RECURSIVE DepthFirstSearch_next_NoFlag(_)
DepthFirstSearch_next_NoFlag(it) ==
  IF it.stack = <<>>
  THEN [it |-> it, out |-> None, panic |-> FALSE]
  ELSE LET node_id == Last(it.stack)
           popped == Front(it.stack)
       IN IF node_id \notin it.visited
          THEN LET visited == it.visited \cup {node_id} IN
               IF ~NodeLive(node_id)
               THEN [it |-> [it EXCEPT !.visited = visited, !.stack = popped],
                     out |-> None, panic |-> TRUE]
               ELSE LET p == PushUnvisited(node(node_id).connections,
                                           Len(node(node_id).connections), visited, popped)
                    IN [it |-> [it EXCEPT !.visited = visited, !.stack = p.stack],
                        out |-> IF p.panic THEN None ELSE node_id,
                        panic |-> p.panic]
          ELSE DepthFirstSearch_next_NoFlag([it EXCEPT !.stack = popped])

\* one call of next(): the iterator after the call, the value returned (out)
\* and whether the call panicked
RECURSIVE DepthFirstSearch_next(_)
DepthFirstSearch_next(it) ==
  IF it.stack = <<>>
  THEN [it |-> it, out |-> None, panic |-> FALSE]
  ELSE LET node_id == Last(it.stack)
           popped == Front(it.stack)
       IN IF node_id \notin it.visited
          THEN LET visited == it.visited \cup {node_id} IN
               IF ~NodeLive(node_id)
               THEN [it |-> [it EXCEPT !.visited = visited, !.stack = popped],
                     out |-> None, panic |-> TRUE]
               ELSE LET p == PushUnvisited(node(node_id).connections,
                                           Len(node(node_id).connections), visited, popped)
                    IN [it |-> [it EXCEPT !.visited = visited, !.stack = p.stack],
                        out |-> IF p.panic THEN None ELSE node_id,
                        panic |-> p.panic]
          ELSE DepthFirstSearch_next([it EXCEPT !.stack = popped, !.cyclic = TRUE])

\* let dfs = graph.iter_depth_first(start); the caller starts an empty Vec
iter_depth_first(start) ==
  /\ ~panicked
  /\ ~dfs.active
  /\ dfs' = DepthFirstSearch_new(start)
  /\ yielded' = <<>>
  /\ ret' = Ret("iter_depth_first", "Ok")
  /\ UNCHANGED <<nodes, edges, lastRun, panicked, issuedNodes, issuedEdges>>
  /\ UNCHANGED extVars

\* dfs.next(); a yielded id is pushed on the caller's Vec
next ==
  /\ ~panicked
  /\ dfs.active
  /\ LET r == DepthFirstSearch_next(dfs) IN
     /\ dfs' = r.it
     /\ panicked' = r.panic
     /\ ret' = Ret("next", IF r.panic THEN "panic" ELSE r.out)
     /\ yielded' = IF r.out # None THEN Append(yielded, r.out) ELSE yielded
  /\ UNCHANGED <<nodes, edges, lastRun, issuedNodes, issuedEdges>>
  /\ UNCHANGED extVars

\* the last call of next() returned None
Exhausted == dfs.active /\ ret.op = "next" /\ ret.val = None

\* the iterator and the Vec go out of scope; a run that reached None is what
\* a later run from the same start is compared with
drop ==
  /\ ~panicked
  /\ dfs.active
  /\ dfs' = NoDfs
  /\ yielded' = <<>>
  /\ lastRun' = IF Exhausted
                THEN [valid |-> TRUE, start |-> dfs.start, seq |-> yielded]
                ELSE lastRun
  /\ ret' = Ret("drop", "Ok")
  /\ UNCHANGED <<nodes, edges, panicked, issuedNodes, issuedEdges>>
  /\ UNCHANGED extVars

(* ------------------------- BreadthFirstSearch ------------------------- *)
\* the iterator of the breadth-first traversal: a FIFO queue seeded with
\* start, a visited set and the (from, to) pairs followed
BreadthFirstSearch_new(start) ==
  [active |-> TRUE, start |-> start, visited |-> {}, queue |-> <<start>>,
   visited_edges |-> <<>>]

\* the outgoing connections of node_id from the i-th on: the to target of
\* each is enqueued if not visited; a connection that does not resolve is
\* skipped
RECURSIVE EnqueueUnvisited(_, _, _, _, _)
EnqueueUnvisited(node_id, connections, i, visited, it) ==
  IF i > Len(connections) THEN it
  ELSE IF ~EdgeLive(connections[i]) \/ edge(connections[i]).from # node_id
       THEN EnqueueUnvisited(node_id, connections, i + 1, visited, it)
       ELSE LET to_id == edge(connections[i]).to IN
            EnqueueUnvisited(node_id, connections, i + 1, visited,
              IF to_id \notin visited
              THEN [it EXCEPT !.queue = Append(@, to_id),
                              !.visited_edges = Append(@, <<node_id, to_id>>)]
              ELSE it)

\* the work-container used as a stack: the newest entry is taken first
RECURSIVE BreadthFirstSearch_next_Lifo(_)
BreadthFirstSearch_next_Lifo(it) ==
  IF it.queue = <<>>
  THEN [it |-> it, out |-> None]
  ELSE LET node_id == Last(it.queue)
           rest == [it EXCEPT !.queue = Front(@)]
       IN IF node_id \in it.visited \/ ~NodeLive(node_id)
          THEN BreadthFirstSearch_next_Lifo(rest)
          ELSE LET visited == it.visited \cup {node_id} IN
               [it |-> EnqueueUnvisited(node_id, node(node_id).connections, 1, visited,
                                        [rest EXCEPT !.visited = visited]),
                out |-> node_id]

\* one call of next(): entries are dequeued until one is not visited; it is
\* marked visited, its targets are enqueued and it is yielded
RECURSIVE BreadthFirstSearch_next(_)
BreadthFirstSearch_next(it) ==
  IF it.queue = <<>>
  THEN [it |-> it, out |-> None]
  ELSE LET node_id == Head(it.queue)
           rest == [it EXCEPT !.queue = Tail(@)]
       IN IF node_id \in it.visited \/ ~NodeLive(node_id)
          THEN BreadthFirstSearch_next(rest)
          ELSE LET visited == it.visited \cup {node_id} IN
               [it |-> EnqueueUnvisited(node_id, node(node_id).connections, 1, visited,
                                        [rest EXCEPT !.visited = visited]),
                out |-> node_id]

iter_breadth_first(start) ==
  /\ ~panicked
  /\ ~dfs.active
  /\ ~bfs.active
  /\ bfs' = BreadthFirstSearch_new(start)
  /\ yielded' = <<>>
  /\ ret' = Ret("iter_breadth_first", "Ok")
  /\ UNCHANGED <<nodes, edges, dfs, lastRun, panicked, issuedNodes, issuedEdges>>
  /\ UNCHANGED <<categories, llist, other, issuedItems, vlist>>

bfs_next ==
  /\ ~panicked
  /\ bfs.active
  /\ LET r == BreadthFirstSearch_next(bfs) IN
     /\ bfs' = r.it
     /\ ret' = Ret("bfs_next", r.out)
     /\ yielded' = IF r.out # None THEN Append(yielded, r.out) ELSE yielded
  /\ UNCHANGED <<nodes, edges, dfs, lastRun, panicked, issuedNodes, issuedEdges>>
  /\ UNCHANGED <<categories, llist, other, issuedItems, vlist>>

BfsExhausted == bfs.active /\ ret.op = "bfs_next" /\ ret.val = None

(* ------------------------ connected_components ------------------------ *)
\* for node in self.iter_depth_first(node_id): every id the run yields
RECURSIVE DfsRun(_)
DfsRun(it) ==
  LET r == DepthFirstSearch_next(it) IN
  IF r.panic THEN [seq |-> <<>>, panic |-> TRUE]
  ELSE IF r.out = None THEN [seq |-> <<>>, panic |-> FALSE]
  ELSE LET rest == DfsRun(r.it) IN
       [seq |-> <<r.out>> \o rest.seq, panic |-> rest.panic]

\* the body of the inner loop for the yielded ids seq[i..]: a set is pushed
\* when current_component >= components.len(), then components[current_component]
\* is indexed (out of range panics)
RECURSIVE InsertYielded(_, _, _, _)
InsertYielded(components, current_component, seq, i) ==
  IF i > Len(seq) THEN [components |-> components, panic |-> FALSE]
  ELSE LET pushed == IF current_component >= Len(components)
                     THEN Append(components, {})
                     ELSE components
       IN IF current_component >= Len(pushed)
          THEN [components |-> pushed, panic |-> TRUE]
          ELSE InsertYielded(
                 [pushed EXCEPT ![current_component + 1] = @ \cup {seq[i]}],
                 current_component, seq, i + 1)

\* the outer loop without current_component += 1
RECURSIVE ComponentsLoop_NoIncrement(_, _, _, _, _)
ComponentsLoop_NoIncrement(keys, i, visited, components, current_component) ==
  IF i > Len(keys) THEN [components |-> components, panic |-> FALSE]
  ELSE IF keys[i] \in visited
       THEN ComponentsLoop_NoIncrement(keys, i + 1, visited, components, current_component)
       ELSE LET run == DfsRun(DepthFirstSearch_new(keys[i]))
                ins == InsertYielded(components, current_component, run.seq, 1)
            IN IF run.panic \/ ins.panic
               THEN [components |-> ins.components, panic |-> TRUE]
               ELSE ComponentsLoop_NoIncrement(keys, i + 1, visited \cup Range(run.seq),
                                               ins.components, current_component)

\* the outer loop without visited.insert(node): every node seeds a run
RECURSIVE ComponentsLoop_NoSkip(_, _, _, _, _)
ComponentsLoop_NoSkip(keys, i, visited, components, current_component) ==
  IF i > Len(keys) THEN [components |-> components, panic |-> FALSE]
  ELSE LET run == DfsRun(DepthFirstSearch_new(keys[i]))
           ins == InsertYielded(components, current_component, run.seq, 1)
       IN IF run.panic \/ ins.panic
          THEN [components |-> ins.components, panic |-> TRUE]
          ELSE ComponentsLoop_NoSkip(keys, i + 1, visited, ins.components,
                                     current_component + 1)

\* the outer loop over self.nodes(), from the i-th key on
RECURSIVE ComponentsLoop(_, _, _, _, _)
ComponentsLoop(keys, i, visited, components, current_component) ==
  IF i > Len(keys) THEN [components |-> components, panic |-> FALSE]
  ELSE IF keys[i] \in visited
       THEN ComponentsLoop(keys, i + 1, visited, components, current_component)
       ELSE LET run == DfsRun(DepthFirstSearch_new(keys[i]))
                ins == InsertYielded(components, current_component, run.seq, 1)
            IN IF run.panic \/ ins.panic
               THEN [components |-> ins.components, panic |-> TRUE]
               ELSE ComponentsLoop(keys, i + 1, visited \cup Range(run.seq),
                                   ins.components, current_component + 1)

connected_components_result == ComponentsLoop(SlotMap_keys(nodes), 1, {}, <<>>, 0)

connected_components ==
  /\ ~panicked
  /\ ~dfs.active
  /\ LET r == connected_components_result IN
     /\ panicked' = r.panic
     /\ ret' = Ret("connected_components", IF r.panic THEN "panic" ELSE r.components)
  /\ UNCHANGED <<nodes, edges, dfs, yielded, lastRun, issuedNodes, issuedEdges>>
  /\ UNCHANGED extVars

(* -------------------------- specification ----------------------------- *)
\* the keys a caller can pass: every key it was ever handed, live or stale,
\* and one key that was never issued
\* the payload of the next node: the i-th node added holds i (get_graph!)
NextDatum == Cardinality(issuedNodes)

NodeArgs == issuedNodes \cup {AbsentNode}

EdgeArgs == issuedEdges \cup {AbsentEdge}

AddNode == Cardinality(issuedNodes) < MaxNodeKeys /\ add_node(NextDatum)

AddEdge ==
  /\ Cardinality(issuedEdges) < MaxEdgeKeys
  /\ \E from \in NodeArgs, to \in NodeArgs : add_edge(from, to)

RemoveNode == \E id \in NodeArgs : remove_node(id)

RemoveEdge == \E id \in EdgeArgs : remove_edge(id)

Next == AddNode \/ AddEdge \/ RemoveNode \/ RemoveEdge

Spec == Init /\ [][Next]_vars

(* ------------- graphs built with add_node and add_edge only ------------ *)
\* the graph of test_dfs_iter (graph1): get_graph!(graph1, 5), then add_edges
\* of the pairs below (node0 is the first node added, and so on)
ScenarioNodes == 5

ScenarioEdges ==
  << <<0, 1>>, <<0, 3>>, <<0, 2>>, <<1, 0>>, <<2, 3>>, <<2, 0>>, <<2, 4>>, <<4, 2>> >>

\* the i-th node (from 0) and the i-th edge (from 1) of a run without removals
NodeN(i) == Key(i + 1, 1)

EdgeN(i) == Key(i, 1)

\* the graph is the scenario graph with its first k edges added
ScenarioPrefix(k) ==
  /\ node_count = ScenarioNodes
  /\ SlotMap_len(edges) = k
  /\ k <= Len(ScenarioEdges)
  /\ \A j \in 1..k :
       /\ edge(EdgeN(j)).from = NodeN(ScenarioEdges[j][1])
       /\ edge(EdgeN(j)).to = NodeN(ScenarioEdges[j][2])

BuildAddNode == node_count < MaxBuildNodes /\ add_node(NextDatum)

BuildAddEdge ==
  /\ node_count <= MaxBuildNodes
  /\ SlotMap_len(edges) < MaxBuildEdges
  /\ \E from \in LiveNodes, to \in LiveNodes : add_edge(from, to)

ScenarioAddNode ==
  /\ SlotMap_len(edges) = 0
  /\ node_count < ScenarioNodes
  /\ add_node(NextDatum)

ScenarioAddEdge ==
  /\ SlotMap_len(edges) < Len(ScenarioEdges)
  /\ ScenarioPrefix(SlotMap_len(edges))
  /\ LET pair == ScenarioEdges[SlotMap_len(edges) + 1] IN
     add_edge(NodeN(pair[1]), NodeN(pair[2]))

StartDfs == \E start \in LiveNodes : iter_depth_first(start)

DfsNext == next

DfsDrop == drop

ConnectedComponents == connected_components

NextBuild ==
  \/ BuildAddNode
  \/ BuildAddEdge
  \/ ScenarioAddNode
  \/ ScenarioAddEdge
  \/ StartDfs
  \/ DfsNext
  \/ DfsDrop
  \/ ConnectedComponents

SpecBuild == Init /\ [][NextBuild]_vars

\* a graph is built and then traversed by a caller that keeps calling next()
\* (while let Some(v) = dfs.next())
FairAddNode == node_count < MaxFairNodes /\ add_node(NextDatum)

FairAddEdge ==
  /\ SlotMap_len(edges) < MaxFairEdges
  /\ \E from \in LiveNodes, to \in LiveNodes : add_edge(from, to)

NextTraverse == FairAddNode \/ FairAddEdge \/ StartDfs \/ DfsNext

SpecTraverseFair == Init /\ [][NextTraverse]_vars /\ WF_vars(DfsNext)

(* --------------- graphs changed by single and batch calls -------------- *)
\* the node keys and edge keys a run may still issue
NodeKeysLeft == MaxBatchNodeKeys - Cardinality(issuedNodes)

EdgeKeysLeft == MaxBatchEdgeKeys - Cardinality(issuedEdges)

\* slices and lists hold the payloads NextDatum, NextDatum + 1, ...
BatchSlices == {[i \in 1..k |-> NextDatum + i - 1] : k \in 0..NodeKeysLeft}

RECURSIVE SeqsUpTo(_, _)
SeqsUpTo(S, n) ==
  IF n = 0 THEN {<<>>}
  ELSE LET shorter == SeqsUpTo(S, n - 1) IN
       shorter \cup {Append(q, x) : q \in shorter, x \in S}

BatchLists ==
  {[i \in 1..Len(ts) |-> [data |-> NextDatum + i - 1, targets |-> ts[i]]] :
     ts \in SeqsUpTo(SeqsUpTo(NodeArgs, EdgeKeysLeft), NodeKeysLeft)}

RECURSIVE TargetCount(_, _)
TargetCount(list, i) ==
  IF i > Len(list) THEN 0 ELSE Len(list[i].targets) + TargetCount(list, i + 1)

BatchAddNode == NodeKeysLeft > 0 /\ add_node(NextDatum)

BatchAddNodes == \E data \in BatchSlices : add_nodes(data)

BatchAddNodesAndEdges ==
  \E list \in BatchLists :
    /\ TargetCount(list, 1) <= EdgeKeysLeft
    /\ add_nodes_and_edges(list)

BatchAddEdge ==
  /\ EdgeKeysLeft > 0
  /\ \E from \in NodeArgs, to \in NodeArgs : add_edge(from, to)

NextBatch ==
  \/ BatchAddNode
  \/ BatchAddNodes
  \/ BatchAddNodesAndEdges
  \/ BatchAddEdge
  \/ RemoveNode
  \/ RemoveEdge

SpecBatch == Init /\ [][NextBatch]_vars

(* ------------------ graphs changed by remove_nodes -------------------- *)
\* longest list of ids passed to remove_nodes
MaxRemoveLen == 3

NextRemoveNodes ==
  \/ AddNode
  \/ AddEdge
  \/ RemoveEdge
  \/ \E ids \in SeqsUpTo(NodeArgs, MaxRemoveLen) : remove_nodes(ids)

SpecRemoveNodes == Init /\ [][NextRemoveNodes]_vars

(* ----------------------------- LinkedList ------------------------------ *)
\* Option<T> holding a value
Some(x) == [some |-> x]

LinkedListItem(index, value, next_index, prev_index) ==
  [index |-> index, value |-> value, next_index |-> next_index, prev_index |-> prev_index]

\* self.items.get(index) of an Option<LinkedListIndex> finds an item
ItemLive(l, index) == index # None /\ SlotMap_contains_key(l.items, index)

LinkedList_get(l, index) == IF ItemLive(l, index) THEN SlotMap_get(l.items, index) ELSE None

LinkedList_len(l) == SlotMap_len(l.items)

LinkedList_next_of(l, index) ==
  IF ItemLive(l, index) THEN LinkedList_get(l, LinkedList_get(l, index).next_index) ELSE None

LinkedList_prev_of(l, index) ==
  IF ItemLive(l, index) THEN LinkedList_get(l, LinkedList_get(l, index).prev_index) ELSE None

\* let next = item.and_then(|item| item.prev_index)
LinkedList_next_of_mut(l, index) ==
  IF ItemLive(l, index) THEN LinkedList_get(l, LinkedList_get(l, index).prev_index) ELSE None

LinkedList_prev_of_mut(l, index) ==
  IF ItemLive(l, index) THEN LinkedList_get(l, LinkedList_get(l, index).prev_index) ELSE None

\* items.get_mut(index).unwrap().next_index = next_index
SetNext(items, index, next_index) ==
  SlotMap_set(items, index, [SlotMap_get(items, index) EXCEPT !.next_index = next_index])

SetPrev(items, index, prev_index) ==
  SlotMap_set(items, index, [SlotMap_get(items, index) EXCEPT !.prev_index = prev_index])

\* the result of an operation: the list, the value returned, and whether
\* an unwrap() or a map index panicked (the list is then as the panic left it)
Done(l, val) == [l |-> l, val |-> val, panic |-> FALSE]

Panic(l) == [l |-> l, val |-> None, panic |-> TRUE]

\* the tail is left where it was when the new item is the last one
LinkedList_insert_after_KeepsTail(l, index, value) ==
  IF ~ItemLive(l, index) THEN Panic(l)
  ELSE LET next_index == LinkedList_get(l, index).next_index
           new_index == SlotMap_next_key(l.items)
           items1 == SlotMap_insert(l.items, LinkedListItem(new_index, value, next_index, index))
       IN IF next_index # None /\ ~SlotMap_contains_key(items1, next_index)
          THEN Panic([l EXCEPT !.items = items1])
          ELSE LET items2 == IF next_index # None
                             THEN SetPrev(items1, next_index, new_index)
                             ELSE items1
               IN Done([head |-> l.head, tail |-> l.tail,
                        items |-> SetNext(items2, index, new_index)], new_index)

LinkedList_insert_after(l, index, value) ==
  IF ~ItemLive(l, index) THEN Panic(l)
  ELSE LET next_index == LinkedList_get(l, index).next_index
           new_index == SlotMap_next_key(l.items)
           items1 == SlotMap_insert(l.items, LinkedListItem(new_index, value, next_index, index))
       IN IF next_index # None /\ ~SlotMap_contains_key(items1, next_index)
          THEN Panic([l EXCEPT !.items = items1])
          ELSE LET items2 == IF next_index # None
                             THEN SetPrev(items1, next_index, new_index)
                             ELSE items1
                   tail == IF next_index # None THEN l.tail ELSE new_index
               IN Done([head |-> l.head, tail |-> tail,
                        items |-> SetNext(items2, index, new_index)], new_index)

LinkedList_insert_before(l, index, value) ==
  IF ~ItemLive(l, index) THEN Panic(l)
  ELSE LET prev_index == LinkedList_get(l, index).prev_index
           new_index == SlotMap_next_key(l.items)
           items1 == SlotMap_insert(l.items, LinkedListItem(new_index, value, index, prev_index))
       IN IF prev_index # None /\ ~SlotMap_contains_key(items1, prev_index)
          THEN Panic([l EXCEPT !.items = items1])
          ELSE LET items2 == IF prev_index # None
                             THEN SetNext(items1, prev_index, new_index)
                             ELSE items1
                   head == IF prev_index # None THEN l.head ELSE new_index
               IN Done([head |-> head, tail |-> l.tail,
                        items |-> SetPrev(items2, index, new_index)], new_index)

\* the new item is linked in front of the old tail
LinkedList_push_back_Swapped(l, value) ==
  LET index == SlotMap_next_key(l.items)
      items1 == SlotMap_insert(l.items, LinkedListItem(index, value, l.tail, None))
  IN IF l.tail # None /\ ~SlotMap_contains_key(items1, l.tail)
     THEN Panic([l EXCEPT !.items = items1])
     ELSE IF l.tail # None
          THEN Done([head |-> l.head, tail |-> index,
                     items |-> SetPrev(items1, l.tail, index)], index)
          ELSE Done([head |-> index, tail |-> index, items |-> items1], index)

LinkedList_push_back(l, value) ==
  LET index == SlotMap_next_key(l.items)
      items1 == SlotMap_insert(l.items, LinkedListItem(index, value, None, l.tail))
  IN IF l.tail # None /\ ~SlotMap_contains_key(items1, l.tail)
     THEN Panic([l EXCEPT !.items = items1])
     ELSE IF l.tail # None
          THEN Done([head |-> l.head, tail |-> index,
                     items |-> SetNext(items1, l.tail, index)], index)
          ELSE Done([head |-> index, tail |-> index, items |-> items1], index)

LinkedList_push_front(l, value) ==
  LET index == SlotMap_next_key(l.items)
      items1 == SlotMap_insert(l.items, LinkedListItem(index, value, l.head, None))
  IN IF l.head # None /\ ~SlotMap_contains_key(items1, l.head)
     THEN Panic([l EXCEPT !.items = items1])
     ELSE IF l.head # None
          THEN Done([head |-> index, tail |-> l.tail,
                     items |-> SetPrev(items1, l.head, index)], index)
          ELSE Done([head |-> index, tail |-> index, items |-> items1], index)

\* the head is left where it was when the last item is popped
LinkedList_pop_back_KeepsHead(l) ==
  IF l.tail = None THEN Done(l, None)
  ELSE IF ~SlotMap_contains_key(l.items, l.tail) THEN Panic(l)
  ELSE LET old_tail == SlotMap_get(l.items, l.tail)
           items1 == SlotMap_remove(l.items, l.tail)
           l1 == [head |-> l.head, tail |-> old_tail.prev_index, items |-> items1]
       IN IF old_tail.prev_index # None
          THEN IF ~SlotMap_contains_key(items1, old_tail.prev_index) THEN Panic(l1)
               ELSE Done([l1 EXCEPT !.items = SetNext(items1, old_tail.prev_index, None)],
                         Some(old_tail.value))
          ELSE Done(l1, Some(old_tail.value))

LinkedList_pop_back(l) ==
  IF l.tail = None THEN Done(l, None)
  ELSE IF ~SlotMap_contains_key(l.items, l.tail) THEN Panic(l)
  ELSE LET old_tail == SlotMap_get(l.items, l.tail)
           items1 == SlotMap_remove(l.items, l.tail)
           l1 == [head |-> l.head, tail |-> old_tail.prev_index, items |-> items1]
       IN IF old_tail.prev_index # None
          THEN IF ~SlotMap_contains_key(items1, old_tail.prev_index) THEN Panic(l1)
               ELSE Done([l1 EXCEPT !.items = SetNext(items1, old_tail.prev_index, None)],
                         Some(old_tail.value))
          ELSE Done([l1 EXCEPT !.head = None], Some(old_tail.value))

LinkedList_pop_front(l) ==
  IF l.head = None THEN Done(l, None)
  ELSE IF ~SlotMap_contains_key(l.items, l.head) THEN Panic(l)
  ELSE LET old_head == SlotMap_get(l.items, l.head)
           items1 == SlotMap_remove(l.items, l.head)
           l1 == [head |-> old_head.next_index, tail |-> l.tail, items |-> items1]
       IN IF old_head.next_index # None
          THEN IF ~SlotMap_contains_key(items1, old_head.next_index) THEN Panic(l1)
               ELSE Done([l1 EXCEPT !.items = SetPrev(items1, old_head.next_index, None)],
                         Some(old_head.value))
          ELSE Done([l1 EXCEPT !.tail = None], Some(old_head.value))

\* the tail is left where it was when the last item is removed
LinkedList_remove_KeepsTail(l, index) ==
  IF ~ItemLive(l, index) THEN Panic(l)
  ELSE LET item == LinkedList_get(l, index)
           items1 == SlotMap_remove(l.items, index)
       IN IF \/ item.prev_index # None /\ ~SlotMap_contains_key(items1, item.prev_index)
             \/ item.next_index # None /\ ~SlotMap_contains_key(items1, item.next_index)
          THEN Panic([l EXCEPT !.items = items1])
          ELSE LET items2 == IF item.prev_index # None
                             THEN SetNext(items1, item.prev_index, item.next_index)
                             ELSE items1
                   items3 == IF item.next_index # None
                             THEN SetPrev(items2, item.next_index, item.prev_index)
                             ELSE items2
               IN Done([head |-> IF item.prev_index # None THEN l.head ELSE item.next_index,
                        tail |-> l.tail,
                        items |-> items3], Some(item.value))

\* LinkedList::remove: the neighbours are linked to each other, head / tail
\* move when the item was the first / last
LinkedList_remove(l, index) ==
  IF ~ItemLive(l, index) THEN Panic(l)
  ELSE LET item == LinkedList_get(l, index)
           items1 == SlotMap_remove(l.items, index)
       IN IF item.prev_index # None /\ ~SlotMap_contains_key(items1, item.prev_index)
          THEN Panic([l EXCEPT !.items = items1])
          ELSE LET items2 == IF item.prev_index # None
                             THEN SetNext(items1, item.prev_index, item.next_index)
                             ELSE items1
                   head == IF item.prev_index # None THEN l.head ELSE item.next_index
               IN IF item.next_index # None /\ ~SlotMap_contains_key(items2, item.next_index)
                  THEN Panic([head |-> head, tail |-> l.tail, items |-> items2])
                  ELSE Done([head |-> head,
                             tail |-> IF item.next_index # None THEN l.tail
                                      ELSE item.prev_index,
                             items |-> IF item.next_index # None
                                       THEN SetPrev(items2, item.next_index, item.prev_index)
                                       ELSE items2],
                            Some(item.value))

\* std::iter::successors(Some(start), ..next_index): start, then the
\* next_index of each index that resolves; fuel more steps at most (a walk
\* that is cut short is longer than any list)
RECURSIVE Successors(_, _, _)
Successors(l, index, fuel) ==
  IF fuel = 0 THEN <<index>>
  ELSE IF ItemLive(l, index) /\ LinkedList_get(l, index).next_index # None
       THEN <<index>> \o Successors(l, LinkedList_get(l, index).next_index, fuel - 1)
       ELSE <<index>>

iter_next_index(l, start) == Successors(l, start, Len(l.items.slots) + 1)

RECURSIVE Predecessors(_, _, _)
Predecessors(l, index, fuel) ==
  IF fuel = 0 THEN <<index>>
  ELSE IF ItemLive(l, index) /\ LinkedList_get(l, index).prev_index # None
       THEN <<index>> \o Predecessors(l, LinkedList_get(l, index).prev_index, fuel - 1)
       ELSE <<index>>

iter_prev_index(l, start) == Predecessors(l, start, Len(l.items.slots) + 1)

\* other.items.drain(): the items leave in slot order, every slot is freed
RECURSIVE DrainFrom(_, _, _)
DrainFrom(sm, keys, i) ==
  IF i > Len(keys) THEN sm ELSE DrainFrom(SlotMap_remove(sm, keys[i]), keys, i + 1)

SlotMap_drain(sm) == DrainFrom(sm, SlotMap_keys(sm), 1)

\* the (index, item) pairs drain() yields
Drained(sm) ==
  LET keys == SlotMap_keys(sm)
  IN [i \in 1..Len(keys) |-> [index |-> keys[i], item |-> SlotMap_get(sm, keys[i])]]

NoMapping == [index \in {} |-> None]

\* for (index, item) in other_items: push_back, index_mapping.insert
RECURSIVE PushDrained(_, _, _, _)
PushDrained(l, other_items, i, index_mapping) ==
  IF i > Len(other_items) THEN [l |-> l, index_mapping |-> index_mapping, panic |-> FALSE]
  ELSE LET r == LinkedList_push_back(l, other_items[i].item.value) IN
       IF r.panic THEN [l |-> r.l, index_mapping |-> index_mapping, panic |-> TRUE]
       ELSE PushDrained(r.l, other_items, i + 1,
                        [index \in DOMAIN index_mapping \cup {other_items[i].index} |->
                           IF index = other_items[i].index THEN r.val
                           ELSE index_mapping[index]])

\* while let Some(next_item) = self.next_of(current_item): a missing map
\* entry panics; a walk that outlasts fuel never ends
RECURSIVE Relink(_, _, _, _, _)
Relink(l, index_mapping, current_item, new_indexes, fuel) ==
  LET next_item == LinkedList_next_of(l, current_item) IN
  IF next_item = None
  THEN [l |-> l, val |-> new_indexes, panic |-> FALSE, hang |-> FALSE]
  ELSE IF fuel = 0
  THEN [l |-> l, val |-> new_indexes, panic |-> FALSE, hang |-> TRUE]
  ELSE IF next_item.index \notin DOMAIN index_mapping
  THEN [l |-> l, val |-> new_indexes, panic |-> TRUE, hang |-> FALSE]
  ELSE LET next_index == index_mapping[next_item.index]
           items1 == SetNext(l.items, current_item, next_index)
       IN IF ~SlotMap_contains_key(items1, next_index)
          THEN [l |-> [l EXCEPT !.items = items1], val |-> new_indexes,
                panic |-> TRUE, hang |-> FALSE]
          ELSE Relink([l EXCEPT !.items = SetPrev(items1, next_index, current_item)],
                      index_mapping, next_index, Append(new_indexes, current_item), fuel - 1)

\* LinkedList::extend_back on the lists l (self) and o (other)
LinkedList_extend_back(l, o) ==
  LET link == l.tail # None /\ o.head # None
      Stop(l1, o1) == [l |-> l1, o |-> o1, val |-> <<>>, panic |-> TRUE, hang |-> FALSE]
  IN IF link /\ ~SlotMap_contains_key(l.items, l.tail) THEN Stop(l, o)
     ELSE LET lItems == IF link THEN SetNext(l.items, l.tail, o.head) ELSE l.items IN
     IF link /\ ~SlotMap_contains_key(o.items, o.head)
     THEN Stop([l EXCEPT !.items = lItems], o)
     ELSE LET oItems == IF link THEN SetPrev(o.items, o.head, l.tail) ELSE o.items
              l1 == [head |-> IF l.tail # None THEN l.head ELSE o.head,
                     tail |-> o.tail,
                     items |-> lItems]
              other_items == Drained(oItems)
              o1 == [o EXCEPT !.items = SlotMap_drain(oItems)]
          IN IF Len(other_items) = 0 THEN Stop(l1, o1)
             ELSE LET first == LinkedList_push_back(l1, other_items[1].item.value) IN
                  IF first.panic THEN Stop(first.l, o1)
                  ELSE LET rest == PushDrained(first.l, other_items, 2, NoMapping) IN
                       IF rest.panic THEN Stop(rest.l, o1)
                       ELSE LET r == Relink(rest.l, rest.index_mapping, first.val, <<>>,
                                            2 * Len(rest.l.items.slots) + 2)
                            IN [l |-> r.l, o |-> o1, val |-> r.val,
                                panic |-> r.panic, hang |-> r.hang]

\* the variables that no operation of the slot-map LinkedList touches
graphVars == <<nodes, edges, dfs, yielded, lastRun, issuedNodes, issuedEdges, categories, bfs,
               vlist>>

\* a step of self that ends as r says
ListStep(r) ==
  /\ llist' = r.l
  /\ panicked' = r.panic
  /\ issuedItems' = issuedItems \cup Range(SlotMap_keys(r.l.items))
  /\ UNCHANGED <<graphVars, other>>

push_back(value) ==
  /\ CanMutate
  /\ LET r == LinkedList_push_back(llist, value) IN
     /\ ListStep(r)
     /\ ret' = [op |-> "push_back", val |-> r.val, value |-> value]

push_front(value) ==
  /\ CanMutate
  /\ LET r == LinkedList_push_front(llist, value) IN
     /\ ListStep(r)
     /\ ret' = [op |-> "push_front", val |-> r.val, value |-> value]

insert_after(index, value) ==
  /\ CanMutate
  /\ LET r == LinkedList_insert_after(llist, index, value) IN
     /\ ListStep(r)
     /\ ret' = [op |-> "insert_after", val |-> r.val, index |-> index, value |-> value]

insert_before(index, value) ==
  /\ CanMutate
  /\ LET r == LinkedList_insert_before(llist, index, value) IN
     /\ ListStep(r)
     /\ ret' = [op |-> "insert_before", val |-> r.val, index |-> index, value |-> value]

pop_back ==
  /\ CanMutate
  /\ LET r == LinkedList_pop_back(llist) IN
     /\ ListStep(r)
     /\ ret' = [op |-> "pop_back", val |-> r.val]

pop_front ==
  /\ CanMutate
  /\ LET r == LinkedList_pop_front(llist) IN
     /\ ListStep(r)
     /\ ret' = [op |-> "pop_front", val |-> r.val]

remove(index) ==
  /\ CanMutate
  /\ LET r == LinkedList_remove(llist, index) IN
     /\ ListStep(r)
     /\ ret' = [op |-> "remove", val |-> r.val, index |-> index]

next_of_mut(index) ==
  /\ CanMutate
  /\ ret' = [op |-> "next_of_mut", val |-> LinkedList_next_of_mut(llist, index), index |-> index]
  /\ UNCHANGED <<graphVars, panicked, llist, other, issuedItems>>

prev_of_mut(index) ==
  /\ CanMutate
  /\ ret' = [op |-> "prev_of_mut", val |-> LinkedList_prev_of_mut(llist, index), index |-> index]
  /\ UNCHANGED <<graphVars, panicked, llist, other, issuedItems>>

\* push_back / push_front on the list that is later passed as other
other_push(front, value) ==
  /\ CanMutate
  /\ LET r == IF front THEN LinkedList_push_front(other, value)
              ELSE LinkedList_push_back(other, value)
     IN /\ other' = r.l
        /\ panicked' = r.panic
        /\ ret' = [op |-> IF front THEN "other.push_front" ELSE "other.push_back",
                   val |-> r.val, value |-> value]
  /\ UNCHANGED <<graphVars, llist, issuedItems>>

extend_back ==
  /\ CanMutate
  /\ LET r == LinkedList_extend_back(llist, other) IN
     /\ llist' = r.l
     /\ other' = r.o
     /\ panicked' = (r.panic \/ r.hang)
     /\ issuedItems' = issuedItems \cup Range(SlotMap_keys(r.l.items))
     /\ ret' = [op |-> "extend_back", val |-> r.val, hang |-> r.hang]
  /\ UNCHANGED graphVars

(* ------------------------ LinkedList over a Vec ------------------------ *)
\* self.items.get(index) finds an item
VecHas(items, index) == index + 1 \in DOMAIN items

\* Vec::remove: the items behind index move one place to the front
Vec_remove(items, index) == SubSeq(items, 1, index) \o SubSeq(items, index + 2, Len(items))

VecLinkedList_insert_after(l, index, value) ==
  IF ~VecHas(l.items, index) THEN Panic(l)
  ELSE LET next_index == l.items[index + 1].next_index
           new_index == Len(l.items)
           items1 == Append(l.items, LinkedListItem(new_index, value, next_index, Some(index)))
       IN IF next_index # None /\ ~VecHas(items1, next_index.some)
          THEN Panic([l EXCEPT !.items = items1])
          ELSE LET items2 == IF next_index # None
                             THEN [items1 EXCEPT ![next_index.some + 1].prev_index = Some(new_index)]
                             ELSE items1
                   tail == IF next_index # None THEN l.tail ELSE Some(new_index)
               IN Done([head |-> l.head, tail |-> tail,
                        items |-> [items2 EXCEPT ![index + 1].next_index = Some(new_index)]],
                       new_index)

VecLinkedList_insert_before(l, index, value) ==
  IF ~VecHas(l.items, index) THEN Panic(l)
  ELSE LET prev_index == l.items[index + 1].prev_index
           new_index == Len(l.items)
           items1 == Append(l.items, LinkedListItem(new_index, value, Some(index), prev_index))
       IN IF prev_index # None /\ ~VecHas(items1, prev_index.some)
          THEN Panic([l EXCEPT !.items = items1])
          ELSE LET items2 == IF prev_index # None
                             THEN [items1 EXCEPT ![prev_index.some + 1].next_index = Some(new_index)]
                             ELSE items1
                   head == IF prev_index # None THEN l.head ELSE Some(new_index)
               IN Done([head |-> head, tail |-> l.tail,
                        items |-> [items2 EXCEPT ![index + 1].prev_index = Some(new_index)]],
                       new_index)

VecLinkedList_push_back(l, value) ==
  LET index == Len(l.items)
      items1 == Append(l.items, LinkedListItem(index, value, None, l.tail))
  IN IF l.tail = None
     THEN Done([head |-> Some(index), tail |-> Some(index), items |-> items1], index)
     ELSE IF ~VecHas(items1, l.tail.some) THEN Panic([l EXCEPT !.items = items1])
     ELSE Done([head |-> l.head, tail |-> Some(index),
                items |-> [items1 EXCEPT ![l.tail.some + 1].next_index = Some(index)]], index)

VecLinkedList_push_front(l, value) ==
  LET index == Len(l.items)
      items1 == Append(l.items, LinkedListItem(index, value, l.head, None))
  IN IF l.head = None
     THEN Done([head |-> Some(index), tail |-> Some(index), items |-> items1], index)
     ELSE IF ~VecHas(items1, l.head.some) THEN Panic([l EXCEPT !.items = items1])
     ELSE Done([head |-> Some(index), tail |-> l.tail,
                items |-> [items1 EXCEPT ![l.head.some + 1].prev_index = Some(index)]], index)

VecLinkedList_pop_back(l) ==
  IF l.tail = None THEN Done(l, None)
  ELSE IF ~VecHas(l.items, l.tail.some) THEN Panic(l)
  ELSE LET old_tail == l.items[l.tail.some + 1]
           l1 == [head |-> l.head, tail |-> old_tail.prev_index,
                  items |-> Vec_remove(l.items, l.tail.some)]
       IN IF old_tail.prev_index = None
          THEN Done([l1 EXCEPT !.head = None], Some(old_tail.value))
          ELSE IF ~VecHas(l1.items, old_tail.prev_index.some) THEN Panic(l1)
          ELSE Done([l1 EXCEPT !.items[old_tail.prev_index.some + 1].next_index = None],
                    Some(old_tail.value))

VecLinkedList_pop_front(l) ==
  IF l.head = None THEN Done(l, None)
  ELSE IF ~VecHas(l.items, l.head.some) THEN Panic(l)
  ELSE LET old_head == l.items[l.head.some + 1]
           l1 == [head |-> old_head.next_index, tail |-> l.tail,
                  items |-> Vec_remove(l.items, l.head.some)]
       IN IF old_head.next_index = None
          THEN Done([l1 EXCEPT !.tail = None], Some(old_head.value))
          ELSE IF ~VecHas(l1.items, old_head.next_index.some) THEN Panic(l1)
          ELSE Done([l1 EXCEPT !.items[old_head.next_index.some + 1].prev_index = None],
                    Some(old_head.value))

VecLinkedList_remove(l, index) ==
  IF ~VecHas(l.items, index) THEN Panic(l)
  ELSE LET item == l.items[index + 1]
           items1 == Vec_remove(l.items, index)
       IN IF item.prev_index # None /\ ~VecHas(items1, item.prev_index.some)
          THEN Panic([l EXCEPT !.items = items1])
          ELSE LET items2 == IF item.prev_index # None
                             THEN [items1 EXCEPT ![item.prev_index.some + 1].next_index =
                                                    item.next_index]
                             ELSE items1
                   head == IF item.prev_index # None THEN l.head ELSE item.next_index
               IN IF item.next_index # None /\ ~VecHas(items2, item.next_index.some)
                  THEN Panic([head |-> head, tail |-> l.tail, items |-> items2])
                  ELSE IF item.next_index # None
                  THEN Done([head |-> head, tail |-> l.tail,
                             items |-> [items2 EXCEPT ![item.next_index.some + 1].prev_index =
                                                        item.prev_index]], item.value)
                  ELSE Done([head |-> head, tail |-> item.prev_index, items |-> items2],
                            item.value)

\* a step of the vector-backed list that ends as r says
VecStep(r) ==
  /\ vlist' = r.l
  /\ panicked' = r.panic
  /\ UNCHANGED <<nodes, edges, dfs, yielded, lastRun, issuedNodes, issuedEdges, categories,
                 bfs, llist, other, issuedItems>>

vec_push_back(value) ==
  /\ CanMutate
  /\ LET r == VecLinkedList_push_back(vlist, value) IN
     /\ VecStep(r)
     /\ ret' = [op |-> "push_back", val |-> r.val, value |-> value]

vec_push_front(value) ==
  /\ CanMutate
  /\ LET r == VecLinkedList_push_front(vlist, value) IN
     /\ VecStep(r)
     /\ ret' = [op |-> "push_front", val |-> r.val, value |-> value]

vec_insert_after(index, value) ==
  /\ CanMutate
  /\ LET r == VecLinkedList_insert_after(vlist, index, value) IN
     /\ VecStep(r)
     /\ ret' = [op |-> "insert_after", val |-> r.val, index |-> index, value |-> value]

vec_insert_before(index, value) ==
  /\ CanMutate
  /\ LET r == VecLinkedList_insert_before(vlist, index, value) IN
     /\ VecStep(r)
     /\ ret' = [op |-> "insert_before", val |-> r.val, index |-> index, value |-> value]

vec_pop_back ==
  /\ CanMutate
  /\ LET r == VecLinkedList_pop_back(vlist) IN
     /\ VecStep(r)
     /\ ret' = [op |-> "pop_back", val |-> r.val]

vec_pop_front ==
  /\ CanMutate
  /\ LET r == VecLinkedList_pop_front(vlist) IN
     /\ VecStep(r)
     /\ ret' = [op |-> "pop_front", val |-> r.val]

vec_remove(index) ==
  /\ CanMutate
  /\ LET r == VecLinkedList_remove(vlist, index) IN
     /\ VecStep(r)
     /\ ret' = [op |-> "remove", val |-> r.val, index |-> index]

(* ------------------------ graphs with categories ----------------------- *)
CategoryNames == {"A", "B"}

CatNodeKeysLeft == MaxCatNodeKeys - Cardinality(issuedNodes)

CatEdgeKeysLeft == MaxCatEdgeKeys - Cardinality(issuedEdges)

CatAddNode == CatNodeKeysLeft > 0 /\ add_node(NextDatum)

CatAddEdge ==
  /\ CatEdgeKeysLeft > 0
  /\ \E from \in LiveNodes, to \in LiveNodes : add_edge(from, to)

CreateCategory ==
  \E name \in CategoryNames, ns \in SeqsUpTo(NodeArgs, CatEdgeKeysLeft) :
    /\ CatNodeKeysLeft >= 2
    /\ create_category(name, ns, NextDatum)

AddToCategory_ ==
  \E name \in CategoryNames, ns \in SeqsUpTo(NodeArgs, CatEdgeKeysLeft) :
    /\ (name \in DOMAIN categories \/ CatNodeKeysLeft >= 1)
    /\ add_to_category(name, ns)

NextCategories == CatAddNode \/ CatAddEdge \/ CreateCategory \/ AddToCategory_

SpecCategories == Init /\ [][NextCategories]_vars

(* ----------------- a CategorizedGraph that also shrinks ---------------- *)
NextCatRemove ==
  \/ CatAddNode
  \/ CatAddEdge
  \/ CreateCategory
  \/ AddToCategory_
  \/ \E id \in NodeArgs : CategorizedGraph_remove_node(id)
  \/ \E id \in EdgeArgs : CategorizedGraph_remove_edge(id)

SpecCatRemove == Init /\ [][NextCatRemove]_vars

(* ---------------- built graphs traversed breadth-first ---------------- *)
StartBfs == \E start \in LiveNodes : iter_breadth_first(start)

BfsNext == bfs_next

NextBfs ==
  \/ BuildAddNode
  \/ BuildAddEdge
  \/ ScenarioAddNode
  \/ ScenarioAddEdge
  \/ StartBfs
  \/ BfsNext

SpecBfs == Init /\ [][NextBfs]_vars

(* ------------- graphs changed by removals, then traversed ------------- *)
\* a traversal started from any key the caller holds, live or not
StartDfsAny == \E start \in NodeArgs : iter_depth_first(start)

NextStale ==
  \/ AddNode
  \/ AddEdge
  \/ RemoveNode
  \/ RemoveEdge
  \/ StartDfsAny
  \/ DfsNext
  \/ DfsDrop
  \/ ConnectedComponents

SpecStale == Init /\ [][NextStale]_vars

(* --------------------- a list filled by push_back --------------------- *)
PushValues == 0..MaxPushValue

ListPushBackAny ==
  /\ LinkedList_len(llist) < MaxPushLen
  /\ \E value \in PushValues : push_back(value)

NextListPush == ListPushBackAny

SpecListPush == Init /\ [][NextListPush]_vars

(* ------------------- a list under all its operations ------------------ *)
\* the value of the next item of self: one per index handed out
NextValue == Cardinality(issuedItems)

ItemKeysLeft == MaxListKeys - Cardinality(issuedItems)

\* an index that names nothing
AbsentItem == Key(0, 1)

ItemArgs == issuedItems \cup {AbsentItem}

ListPushBack == ItemKeysLeft > 0 /\ push_back(NextValue)

ListPushFront == ItemKeysLeft > 0 /\ push_front(NextValue)

ListInsertAfter ==
  /\ ItemKeysLeft > 0
  /\ \E index \in ItemArgs : insert_after(index, NextValue)

ListInsertBefore ==
  /\ ItemKeysLeft > 0
  /\ \E index \in ItemArgs : insert_before(index, NextValue)

ListNextOfMut == \E index \in ItemArgs : next_of_mut(index)

ListPrevOfMut == \E index \in ItemArgs : prev_of_mut(index)

NextList ==
  \/ ListPushBack \/ ListPushFront \/ ListInsertAfter \/ ListInsertBefore
  \/ pop_back \/ pop_front \/ ListNextOfMut \/ ListPrevOfMut

SpecList == Init /\ [][NextList]_vars

\* the same list with remove
NextListRemove == NextList \/ \E index \in ItemArgs : remove(index)

SpecListRemove == Init /\ [][NextListRemove]_vars

(* ------------------ two lists, one extended by the other -------------- *)
\* other takes values apart from those of self
OtherPush ==
  /\ Len(other.items.slots) < MaxOtherKeys
  /\ \E front \in BOOLEAN : other_push(front, 100 + Len(other.items.slots))

NextListExtend == ListPushBack \/ ListPushFront \/ pop_back \/ OtherPush \/ extend_back

SpecListExtend == Init /\ [][NextListExtend]_vars

(* ------------- the vector-backed list under its operations ------------ *)
VecRoom == Len(vlist.items) < MaxVecLen

\* the positions of the vector and the first one behind it
VecArgs == 0..Len(vlist.items)

NextVec ==
  \/ \E value \in 1..MaxVecValue : VecRoom /\ vec_push_back(value)
  \/ \E value \in 1..MaxVecValue : VecRoom /\ vec_push_front(value)
  \/ \E index \in VecArgs, value \in 1..MaxVecValue : VecRoom /\ vec_insert_after(index, value)
  \/ \E index \in VecArgs, value \in 1..MaxVecValue : VecRoom /\ vec_insert_before(index, value)
  \/ vec_pop_back
  \/ vec_pop_front
  \/ \E index \in VecArgs : vec_remove(index)

SpecVec == Init /\ [][NextVec]_vars

(* ======================= properties of the Graph ====================== *)
Connections(n) == node(n).connections

Touches(e, n) == edge(e).from = n \/ edge(e).to = n

\* C1: in every reachable state of the default Graph, every EdgeID in a live
\* node's connections resolves to a live edge whose from or to is that node.
C1_ConnectionsResolve ==
  \A n \in LiveNodes : \A i \in 1..Len(Connections(n)) :
    /\ EdgeLive(Connections(n)[i])
    /\ Touches(Connections(n)[i], n)

\* C2: a remove_node(n) step on a live node n leaves no surviving node that
\* lists an edge that touched n, and every such edge is gone from the arena.
C2_RemoveNodeCascades ==
  [][\A n \in issuedNodes :
       (NodeLive(n) /\ ret'.op = "remove_node" /\ ~NodeLive(n)')
       => \A e \in {x \in LiveEdges : Touches(x, n)} :
            /\ ~EdgeLive(e)'
            /\ \A m \in LiveNodes' : e \notin Range(Connections(m))']_vars

\* C3: a remove_edge(e) step on a live edge e returns Ok, leaves e in the
\* connections of neither endpoint, and makes edge(e) fail.
C3_RemoveEdgeRetracts ==
  [][\A e \in issuedEdges :
       (EdgeLive(e) /\ ret'.op = "remove_edge" /\ ~EdgeLive(e)')
       => /\ ret'.val = "Ok"
          /\ \A m \in {edge(e).from, edge(e).to} :
               NodeLive(m)' => e \notin Range(Connections(m))']_vars

\* C4: an id returned by add_node / add_edge was never issued before, and an
\* issued id that does not resolve never resolves again, slot reuse included.
C4_NoABA ==
  [][/\ ret'.op = "add_node" => ret'.val \notin issuedNodes
     /\ ret'.op = "add_edge" => ret'.val \notin issuedEdges
     /\ \A id \in issuedNodes : ~NodeLive(id) => ~NodeLive(id)'
     /\ \A id \in issuedEdges : ~EdgeLive(id) => ~EdgeLive(id)']_vars

\* a node slot and an edge slot hold a second occupant while the keys of
\* their first occupants fail
C4_Witness ==
  /\ \E a \in issuedNodes, b \in LiveNodes : a.idx = b.idx /\ ~NodeLive(a)
  /\ \E a \in issuedEdges, b \in LiveEdges : a.idx = b.idx /\ ~EdgeLive(a)

(* ====================== properties of the traversal =================== *)
NoDuplicates(seq) == \A i, j \in 1..Len(seq) : i # j => seq[i] # seq[j]

IsPrefix(s, t) == Len(s) <= Len(t) /\ s = SubSeq(t, 1, Len(s))

\* the nodes reachable from the set S along live edges in from->to direction
RECURSIVE ReachableFrom(_)
ReachableFrom(S) ==
  LET T == S \cup {edge(e).to : e \in {x \in LiveEdges : edge(x).from \in S}}
  IN IF T = S THEN S ELSE ReachableFrom(T)

\* C5: a traversal of a built graph from a live start yields no node twice,
\* only nodes reachable from start along from->to, never more than
\* node_count() ids, and at exhaustion exactly the reachable nodes.
C5_DfsYieldsReachable ==
  dfs.active =>
    /\ NoDuplicates(yielded)
    /\ Range(yielded) \subseteq ReachableFrom({dfs.start})
    /\ Len(yielded) <= node_count
    /\ Exhausted => Range(yielded) = ReachableFrom({dfs.start})

\* an exhausted traversal of two or more nodes that left out a node whose
\* edge points into the visited region
C5_Witness ==
  /\ Exhausted
  /\ Len(yielded) >= 2
  /\ \E e \in LiveEdges : edge(e).from \notin Range(yielded) /\ edge(e).to \in Range(yielded)

\* the outgoing edges of n in the order they were added
OutEdges(n) == SelectSeq(SlotMap_keys(edges), LAMBDA e : edge(e).from = n)

\* recursive pre-order depth-first search: n, then each child not yet seen,
\* in the order of the edges
RECURSIVE Preorder(_, _), PreorderChildren(_, _, _)
Preorder(n, seen) == <<n>> \o PreorderChildren(OutEdges(n), 1, seen \cup {n})

PreorderChildren(es, i, seen) ==
  IF i > Len(es) THEN <<>>
  ELSE LET t == edge(es[i]).to IN
       IF t \in seen THEN PreorderChildren(es, i + 1, seen)
       ELSE LET sub == Preorder(t, seen) IN
            sub \o PreorderChildren(es, i + 1, seen \cup Range(sub))

ScenarioOrder == <<NodeN(0), NodeN(1), NodeN(3), NodeN(2), NodeN(4)>>

\* C6: what a traversal has yielded is always a prefix of the recursive
\* pre-order from its start, and the whole of it at exhaustion; on the
\* scenario graph, from node 0, it is 0,1,3,2,4.
C6_DfsIsPreorder ==
  dfs.active =>
    /\ IsPrefix(yielded, Preorder(dfs.start, {}))
    /\ Exhausted => yielded = Preorder(dfs.start, {})
    /\ (Exhausted /\ ScenarioPrefix(Len(ScenarioEdges)) /\ dfs.start = NodeN(0))
         => yielded = ScenarioOrder

C6_Witness ==
  /\ Exhausted
  /\ ScenarioPrefix(Len(ScenarioEdges))
  /\ dfs.start = NodeN(0)
  /\ yielded = ScenarioOrder

\* the graph is the cycle 0->1->0
IsCycle01 ==
  /\ node_count = 2
  /\ SlotMap_len(edges) = 2
  /\ EdgeLive(EdgeN(1)) /\ edge(EdgeN(1)).from = NodeN(0) /\ edge(EdgeN(1)).to = NodeN(1)
  /\ EdgeLive(EdgeN(2)) /\ edge(EdgeN(2)).from = NodeN(1) /\ edge(EdgeN(2)).to = NodeN(0)

\* C7: a traversal whose next() keeps being called reaches the call that
\* returns None; no traversal yields an id twice, and on the cycle 0->1->0
\* from node 0 it ends having yielded 0 and 1.
C7_DfsTerminates ==
  /\ dfs.active ~> Exhausted
  /\ [](dfs.active => NoDuplicates(yielded))
  /\ []((Exhausted /\ IsCycle01 /\ dfs.start = NodeN(0)) => yielded = <<NodeN(0), NodeN(1)>>)

C7_Witness ==
  /\ Exhausted
  /\ IsCycle01
  /\ dfs.start = NodeN(0)
  /\ yielded = <<NodeN(0), NodeN(1)>>

Returned(op) == ~panicked /\ ret.op = op

\* the nodes connected to the set S by live edges taken in either direction
RECURSIVE WeaklyConnected(_)
WeaklyConnected(S) ==
  LET T == S \cup {edge(e).to : e \in {x \in LiveEdges : edge(x).from \in S}}
             \cup {edge(e).from : e \in {x \in LiveEdges : edge(x).to \in S}}
  IN IF T = S THEN S ELSE WeaklyConnected(T)

WeakComponents == {WeaklyConnected({n}) : n \in LiveNodes}

\* C9: the sets returned by connected_components() cover the live nodes, are
\* pairwise disjoint, and hold both endpoints of every edge in one set.
C9_ComponentsPartition ==
  Returned("connected_components") =>
    LET cs == ret.val IN
    /\ UNION Range(cs) = LiveNodes
    /\ \A i, j \in 1..Len(cs) : i # j => cs[i] \cap cs[j] = {}
    /\ \A e \in LiveEdges : \E i \in 1..Len(cs) : {edge(e).from, edge(e).to} \subseteq cs[i]

\* C10: connected_components() returns as many sets as the graph has
\* weakly-connected groups.
C10_ComponentsCount ==
  Returned("connected_components") => Len(ret.val) = Cardinality(WeakComponents)

\* C11: on a graph of n nodes and no edges connected_components() returns n
\* sets, the i-th holding just the i-th node of nodes(); on the empty graph
\* it returns the empty sequence.
C11_IsolatedNodesSingletons ==
  (Returned("connected_components") /\ SlotMap_len(edges) = 0) =>
    /\ Len(ret.val) = node_count
    /\ \A i \in 1..Len(ret.val) : ret.val[i] = {SlotMap_keys(nodes)[i]}
    /\ node_count = 0 => ret.val = <<>>

\* connected_components() has returned on the 5 isolated nodes of
\* test_dfs_connected_components
C11_Witness ==
  /\ Returned("connected_components")
  /\ SlotMap_len(edges) = 0
  /\ node_count = ScenarioNodes
  /\ Len(ret.val) = ScenarioNodes

\* C12: on the graph of test_dfs_iter (5 nodes, the 8 scenario edges in
\* order) connected_components() returns one set, holding all 5 nodes.
C12_ScenarioOneComponent ==
  (Returned("connected_components") /\ ScenarioPrefix(Len(ScenarioEdges))) =>
    /\ Len(ret.val) = 1
    /\ ret.val[1] = {NodeN(i) : i \in 0..(ScenarioNodes - 1)}

C12_Witness ==
  /\ Returned("connected_components")
  /\ ScenarioPrefix(Len(ScenarioEdges))
  /\ Len(ret.val) = 1
  /\ Cardinality(ret.val[1]) = ScenarioNodes

(* ============== properties of the results of Graph operations ========== *)
\* C13: a remove_node step that removes a live node returns Ok, whatever
\* its connections hold (an edge already removed, an edge listed twice).
C13_RemoveNodeOkWhenLive ==
  [][\A n \in issuedNodes :
       (NodeLive(n) /\ ret'.op = "remove_node" /\ ~NodeLive(n)') => ret'.val = "Ok"]_vars

\* C14: a lookup of a key never issued fails; an id returned by add_node /
\* add_edge is found; an issued id that is not found is never found again,
\* and one that is found stops being found only by a removal that reports
\* success; remove_node / remove_edge return NodeNotFound / EdgeNotFound
\* exactly when they find nothing to remove, and then leave both arenas
\* (connections included) as they were; no step panics.
C14_NotFoundOnBadIds ==
  [][/\ ~NodeFound(AbsentNode)' /\ ~EdgeFound(AbsentEdge)'
     /\ ret'.op = "add_node" => SlotMap_get(nodes', ret'.val) # None
     /\ ret'.op = "add_edge" => SlotMap_get(edges', ret'.val) # None
     /\ \A id \in issuedNodes :
          /\ ~NodeFound(id) => ~NodeFound(id)'
          /\ (NodeFound(id) /\ ~NodeFound(id)')
               => (ret'.op = "remove_node" /\ ret'.val # "NodeNotFound")
     /\ \A id \in issuedEdges :
          /\ ~EdgeFound(id) => ~EdgeFound(id)'
          /\ (EdgeFound(id) /\ ~EdgeFound(id)')
               => \/ ret'.op = "remove_edge" /\ ret'.val = "Ok"
                  \/ ret'.op = "remove_node" /\ ret'.val # "NodeNotFound"
     /\ ret'.op = "remove_node" =>
          /\ ret'.val = "NodeNotFound" <=> SlotMap_keys(nodes)' = SlotMap_keys(nodes)
          /\ ret'.val = "NodeNotFound" => (nodes' = nodes /\ edges' = edges)
     /\ ret'.op = "remove_edge" =>
          /\ ret'.val = "EdgeNotFound" <=> SlotMap_keys(edges)' = SlotMap_keys(edges)
          /\ ret'.val = "EdgeNotFound" => (nodes' = nodes /\ edges' = edges)
     /\ ~panicked']_vars

\* remove_node has failed on a stale id whose slot holds a later node that
\* lists an edge
C14_Witness ==
  /\ ret.op = "remove_node"
  /\ ret.val = "NodeNotFound"
  /\ \E a \in issuedNodes, b \in LiveNodes :
       a.idx = b.idx /\ ~NodeFound(a) /\ Connections(b) # <<>>

\* C15: an add_edge step with a from or to that is not a live node returns
\* an id not issued before, stores the edge with the given from and to,
\* appends the id to the connections of the endpoint that is live, and
\* changes no other node.
C15_AddEdgeMissingEndpoint ==
  [][(ret'.op = "add_edge" /\ (~NodeLive(ret'.from) \/ ~NodeLive(ret'.to))) =>
       /\ ret'.val \notin issuedEdges
       /\ SlotMap_get(edges', ret'.val) # None
       /\ SlotMap_get(edges', ret'.val).from = ret'.from
       /\ SlotMap_get(edges', ret'.val).to = ret'.to
       /\ SlotMap_keys(nodes)' = SlotMap_keys(nodes)
       /\ \A n \in LiveNodes :
            Connections(n)' = IF n \in {ret'.from, ret'.to}
                              THEN Append(Connections(n), ret'.val)
                              ELSE Connections(n)
       /\ ~panicked']_vars

\* add_edge from a removed node to a live one has put the new id at the
\* end of the live node's connections, after an earlier edge
C15_Witness ==
  /\ ret.op = "add_edge"
  /\ ret.from \in issuedNodes
  /\ ~NodeLive(ret.from)
  /\ NodeLive(ret.to)
  /\ Len(Connections(ret.to)) = 2
  /\ Last(Connections(ret.to)) = ret.val

\* C16: an add_edge step between live nodes stores the edge with the given
\* from and to and appends its id to the connections of from and then of
\* to (twice to the same node for a self-loop); node_count, the nodes'
\* ids and payloads, the other connections and the existing edges stay.
C16_AddEdgeAppendsBothEnds ==
  [][(ret'.op = "add_edge" /\ NodeLive(ret'.from) /\ NodeLive(ret'.to)) =>
       /\ SlotMap_get(edges', ret'.val) # None
       /\ SlotMap_get(edges', ret'.val) = Edge_new(ret'.val, ret'.from, ret'.to)
       /\ node_count' = node_count
       /\ SlotMap_keys(nodes)' = SlotMap_keys(nodes)
       /\ \A n \in LiveNodes :
            /\ Connections(n)' = Connections(n)
                                    \o (IF n = ret'.from THEN <<ret'.val>> ELSE <<>>)
                                    \o (IF n = ret'.to THEN <<ret'.val>> ELSE <<>>)
            /\ node(n)'.id = node(n).id
            /\ node(n)'.data = node(n).data
       /\ \A e \in LiveEdges : EdgeLive(e)' /\ edge(e)' = edge(e)]_vars

\* a self-loop has been added to a node that already listed an edge
C16_Witness ==
  /\ ret.op = "add_edge"
  /\ ret.from = ret.to
  /\ NodeLive(ret.from)
  /\ Len(Connections(ret.from)) = 3
  /\ SubSeq(Connections(ret.from), 2, 3) = <<ret.val, ret.val>>
  /\ Connections(ret.from)[1] # ret.val

\* the connections of the nodes ns[i..], one list after the other
RECURSIVE ConnectionsOf(_, _)
ConnectionsOf(ns, i) ==
  IF i > Len(ns) THEN <<>> ELSE Connections(ns[i]) \o ConnectionsOf(ns, i + 1)

\* C17: add_nodes_and_edges(list) returns the ids of the nodes it added, one
\* per entry in input order, and the ids of all the edges it added for all
\* the entries in creation order, each going from its new node to the
\* listed target.
C17_BatchReturnsAllIds ==
  Returned("add_nodes_and_edges") =>
    LET ns == ret.val.nodes
        es == ret.val.edges
    IN /\ Len(ns) = Len(ret.list)
       /\ \A i \in 1..Len(ns) :
            /\ NodeLive(ns[i])
            /\ node(ns[i]).data = ret.list[i].data
            /\ Len(Connections(ns[i])) = Len(ret.list[i].targets)
            /\ \A j \in 1..Len(Connections(ns[i])) :
                 /\ edge(Connections(ns[i])[j]).from = ns[i]
                 /\ edge(Connections(ns[i])[j]).to = ret.list[i].targets[j]
       /\ es = ConnectionsOf(ns, 1)

\* C18: an add_node step returns an id whose node holds that id and makes
\* node_count one larger; add_nodes(slice) returns one id per element, the
\* i-th naming a node that holds the i-th datum; node_count grows by one
\* per node added, shrinks by one per removal of a live node, and is left
\* alone by every other step.
C18_AddNodeCounts ==
  [][/\ ret'.op = "add_node" =>
          /\ SlotMap_get(nodes', ret'.val) # None
          /\ SlotMap_get(nodes', ret'.val).id = ret'.val
          /\ node_count' = node_count + 1
     /\ ret'.op = "add_nodes" =>
          /\ Len(ret'.val) = Len(ret'.data)
          /\ NoDuplicates(ret'.val)
          /\ \A i \in 1..Len(ret'.val) :
               /\ ret'.val[i] \notin issuedNodes
               /\ SlotMap_get(nodes', ret'.val[i]) # None
               /\ SlotMap_get(nodes', ret'.val[i]).id = ret'.val[i]
               /\ SlotMap_get(nodes', ret'.val[i]).data = ret'.data[i]
          /\ node_count' = node_count + Len(ret'.data)
     /\ ret'.op = "add_nodes_and_edges" => node_count' = node_count + Len(ret'.list)
     /\ ret'.op = "remove_node" =>
          node_count' = node_count - Cardinality({n \in LiveNodes : ~NodeLive(n)'})
     /\ ret'.op = "remove_node" =>
          Cardinality({n \in LiveNodes : ~NodeLive(n)'})
            = IF ret'.val = "NodeNotFound" THEN 0 ELSE 1
     /\ ret'.op \in {"add_edge", "remove_edge"} => node_count' = node_count]_vars

\* add_nodes has added two nodes with different payloads
C18_Witness ==
  /\ ret.op = "add_nodes"
  /\ Len(ret.val) = 2
  /\ node_count = 2
  /\ node(ret.val[1]).data # node(ret.val[2]).data

(* ============ traversal of graphs that went through removals =========== *)
\* C19: on a graph reached through add_node, add_edge (missing endpoints
\* included), remove_node and remove_edge, neither a traversal started
\* from a live node nor connected_components() panics, and every id such a
\* traversal yields is a live node.
C19_TraversalSkipsDangling ==
  /\ ~(panicked /\ ret.op = "connected_components")
  /\ ~(panicked /\ ret.op = "next" /\ NodeLive(dfs.start))
  /\ (dfs.active /\ NodeLive(dfs.start)) => \A i \in 1..Len(yielded) : NodeLive(yielded[i])

\* C20: a traversal started from an id that is not a live node does not
\* panic in next() and yields no id of a node that is not live.
C20_StaleStartIsGraceful ==
  dfs.active /\ ~NodeLive(dfs.start) =>
    /\ ~(panicked /\ ret.op = "next")
    /\ \A i \in 1..Len(yielded) : NodeLive(yielded[i])

(* =================== properties of the breadth-first walk ============== *)
\* the to targets of the edges es[i..] that are not in seen, each once
RECURSIVE NewTargets(_, _, _)
NewTargets(es, i, seen) ==
  IF i > Len(es) THEN <<>>
  ELSE LET t == edge(es[i]).to IN
       IF t \in seen THEN NewTargets(es, i + 1, seen)
       ELSE <<t>> \o NewTargets(es, i + 1, seen \cup {t})

\* level order: the nodes in order of discovery, each followed (after all
\* the nodes discovered before it) by its undiscovered successors
RECURSIVE LevelOrder(_, _)
LevelOrder(order, i) ==
  IF i > Len(order) THEN order
  ELSE LevelOrder(order \o NewTargets(OutEdges(order[i]), 1, Range(order)), i + 1)

ConnectionEnds(ns, es, id) ==
  LET connections == SlotMap_get(ns, id).connections
  IN [j \in 1..Len(connections) |-> SlotMap_get(es, connections[j]).to]

\* C22: a create_category step on an unused name returns the id the name
\* is mapped to afterwards; the node with that id carries the payload
\* passed in and has one connection per listed node; the graph has grown
\* by exactly one node.
C22_CreateCategoryReturnsCategory ==
  [][(ret'.op = "create_category" /\ ret'.ok) =>
       LET found == SlotMap_get(nodes', ret'.val) IN
       /\ ret'.name \in DOMAIN categories'
       /\ categories'[ret'.name] = ret'.val
       /\ found # None
       /\ found.data = ret'.data
       /\ Len(found.connections) = Len(ret'.nodes)
       /\ SlotMap_len(nodes') = SlotMap_len(nodes) + 1]_vars

\* C23: a create_category step on a name that is already in the map
\* returns an error and changes neither arena nor the map.
C23_CreateCategoryTwiceErrs ==
  [][(ret'.op = "create_category" /\ ret'.name \in DOMAIN categories) =>
       /\ ~ret'.ok
       /\ UNCHANGED <<nodes, edges, categories, issuedNodes, issuedEdges>>]_vars

\* a refused create_category that listed members, on a graph that already
\* holds a category with members
C23_Witness ==
  /\ ret.op = "create_category"
  /\ ~ret.ok
  /\ Len(ret.nodes) > 0
  /\ nodes_by_category(ret.name) # <<>>

\* C24: an add_to_category step returns the id the name is mapped to
\* afterwards; on a known name that is the id it was mapped to before and
\* the map is unchanged, on a new name the map grows by one entry; the to
\* ends of the connections of the category node are those it had before
\* followed by the nodes passed, and the to ends of the connections of the
\* other category nodes are as before.
C24_AddToCategoryReuses ==
  [][ret'.op = "add_to_category" =>
       LET name == ret'.name
           before == IF name \in DOMAIN categories
                     THEN ConnectionEnds(nodes, edges, categories[name])
                     ELSE <<>>
       IN /\ ret'.ok
          /\ name \in DOMAIN categories'
          /\ categories'[name] = ret'.val
          /\ name \in DOMAIN categories =>
                ret'.val = categories[name] /\ categories' = categories
          /\ name \notin DOMAIN categories =>
                Cardinality(DOMAIN categories') = Cardinality(DOMAIN categories) + 1
          /\ ConnectionEnds(nodes', edges', ret'.val) = before \o ret'.nodes
          /\ \A o \in DOMAIN categories \ {name} :
               ConnectionEnds(nodes', edges', categories[o]) =
                 ConnectionEnds(nodes, edges, categories[o])]_vars

\* the nodes a step adds to the category name: those passed to
\* create_category / add_to_category, or the to end of an edge added by
\* add_edge from the category node
AddedTo(name) ==
  IF ret'.op \in {"create_category", "add_to_category"}
  THEN IF ret'.ok /\ ret'.name = name THEN ret'.nodes ELSE <<>>
  ELSE IF /\ ret'.op = "add_edge"
          /\ name \in DOMAIN categories
          /\ ret'.from = categories[name]
       THEN <<ret'.to>>
       ELSE <<>>

\* C25: nodes_by_category of a name that is not in the map is empty, and
\* every step, whatever edges it adds, extends nodes_by_category(name) by
\* exactly the nodes it adds to that category (nodes_by_category_id of the
\* mapped id is the same list).
C25_NodesByCategoryExact ==
  [][\A name \in CategoryNames :
       /\ name \notin DOMAIN categories => nodes_by_category(name) = <<>>
       /\ nodes_by_category(name)' = nodes_by_category(name) \o AddedTo(name)
       /\ name \in DOMAIN categories' =>
            nodes_by_category_id(categories[name])' = nodes_by_category(name)'
     ]_vars

(* ===================== properties of the LinkedList ==================== *)
\* the indexes of l from its head along next_index, and from its tail
\* along prev_index
Order(l) == IF l.head = None THEN <<>> ELSE iter_next_index(l, l.head)

BackOrder(l) == IF l.tail = None THEN <<>> ELSE iter_prev_index(l, l.tail)

Reverse(seq) == [i \in 1..Len(seq) |-> seq[Len(seq) + 1 - i]]

\* the values of the items of l named by order
Values(l, order) ==
  [i \in 1..Len(order) |->
     IF ItemLive(l, order[i]) THEN Some(LinkedList_get(l, order[i]).value) ELSE None]

\* C26: in a list filled from empty by push_back alone (the i-th item
\* pushed holds the i-th slot, so the slot order is the insertion order),
\* head is the first and tail the last item pushed, prev_of(first) and
\* next_of(last) are None, next_of and prev_of lead from each item to the
\* one pushed after and before it, the walk from head yields the len()
\* items in insertion order, and the index returned last is the last item
\* and holds the value pushed.
C26_PushBackFollowsInsertionOrder ==
  llist.head # None =>
    LET order == SlotMap_keys(llist.items)
        n == Len(order)
    IN /\ n > 0
       /\ llist.head = order[1]
       /\ llist.tail = order[n]
       /\ LinkedList_prev_of(llist, order[1]) = None
       /\ LinkedList_next_of(llist, order[n]) = None
       /\ \A i \in 1..(n - 1) :
            /\ LinkedList_next_of(llist, order[i]) = LinkedList_get(llist, order[i + 1])
            /\ LinkedList_prev_of(llist, order[i + 1]) = LinkedList_get(llist, order[i])
       /\ iter_next_index(llist, llist.head) = order
       /\ Len(iter_next_index(llist, llist.head)) = LinkedList_len(llist)
       /\ ret.op = "push_back" =>
            /\ ret.val = order[n]
            /\ LinkedList_get(llist, ret.val).value = ret.value

\* three items pushed, as in test_fn_push_back_fn_next_of_fn_prev_of
C26_Witness ==
  /\ ret.op = "push_back"
  /\ LinkedList_len(llist) = 3
  /\ LinkedList_next_of(llist, llist.head) = LinkedList_prev_of(llist, llist.tail)

\* the items of l other than those named in except keep their links, and
\* every item keeps its index and value
LinksKept(l, m, keepNext, keepPrev) ==
  \A k \in Range(SlotMap_keys(l.items)) :
    LET i == LinkedList_get(l, k)
        j == LinkedList_get(m, k)
    IN /\ j # None
       /\ j.index = i.index
       /\ j.value = i.value
       /\ k \in keepNext => j.next_index = i.next_index
       /\ k \in keepPrev => j.prev_index = i.prev_index

\* C27: an insert_after step on a live item a does not panic and returns
\* the index of a new item with the value passed, which is next_of(a) and
\* whose prev_of is a; when a had a successor the new item is its prev_of
\* and it is the new item's next_of, else the new item is the tail; the
\* head, and the tail in the first case, stay, and so does every other
\* link, index and value. insert_before is the mirror image.
C27_InsertBetween ==
  [][/\ (ret'.op = "insert_after" /\ ItemLive(llist, ret'.index)) =>
          LET a == ret'.index
              new == ret'.val
              succ == LinkedList_get(llist, a).next_index
              keys == Range(SlotMap_keys(llist.items))
          IN /\ ~panicked'
             /\ ~ItemLive(llist, new)
             /\ ItemLive(llist', new)
             /\ LinkedList_get(llist', new).value = ret'.value
             /\ LinkedList_next_of(llist', a) = LinkedList_get(llist', new)
             /\ LinkedList_prev_of(llist', new) = LinkedList_get(llist', a)
             /\ succ # None =>
                  /\ LinkedList_prev_of(llist', succ) = LinkedList_get(llist', new)
                  /\ LinkedList_next_of(llist', new) = LinkedList_get(llist', succ)
                  /\ llist'.tail = llist.tail
             /\ succ = None =>
                  /\ LinkedList_get(llist', new).next_index = None
                  /\ llist.tail = a
                  /\ llist'.tail = new
             /\ llist'.head = llist.head
             /\ LinksKept(llist, llist', keys \ {a}, keys \ {succ})
             /\ LinkedList_len(llist') = LinkedList_len(llist) + 1
     /\ (ret'.op = "insert_before" /\ ItemLive(llist, ret'.index)) =>
          LET a == ret'.index
              new == ret'.val
              pred == LinkedList_get(llist, a).prev_index
              keys == Range(SlotMap_keys(llist.items))
          IN /\ ~panicked'
             /\ ~ItemLive(llist, new)
             /\ ItemLive(llist', new)
             /\ LinkedList_get(llist', new).value = ret'.value
             /\ LinkedList_prev_of(llist', a) = LinkedList_get(llist', new)
             /\ LinkedList_next_of(llist', new) = LinkedList_get(llist', a)
             /\ pred # None =>
                  /\ LinkedList_next_of(llist', pred) = LinkedList_get(llist', new)
                  /\ LinkedList_prev_of(llist', new) = LinkedList_get(llist', pred)
                  /\ llist'.head = llist.head
             /\ pred = None =>
                  /\ LinkedList_get(llist', new).prev_index = None
                  /\ llist.head = a
                  /\ llist'.head = new
             /\ llist'.tail = llist.tail
             /\ LinksKept(llist, llist', keys \ {pred}, keys \ {a})
             /\ LinkedList_len(llist') = LinkedList_len(llist) + 1
    ]_vars

\* an insert_after that made its item the tail of a list of three, whose
\* first item came from an insert_before
C27_Witness ==
  /\ ret.op = "insert_after"
  /\ ~panicked
  /\ llist.tail = ret.val
  /\ LinkedList_len(llist) = 3
  /\ LinkedList_get(llist, llist.head).next_index = ret.index
  /\ llist.head.idx = 2

\* C28: a pop_back step on an empty list returns None and changes nothing;
\* on a list with items it returns the value of the tail, which leaves the
\* list; the tail becomes its former predecessor, whose next becomes None,
\* or head and tail both become None when it had none; the walk from the
\* head loses its last index and nothing else (so repeated pop_back returns
\* the values in reverse list order). pop_front is the mirror image.
C28_PopEnds ==
  [][/\ ret'.op = "pop_back" =>
          IF LinkedList_len(llist) = 0
          THEN ret'.val = None /\ llist' = llist /\ ~panicked'
          ELSE LET order == Order(llist)
                   old_tail == LinkedList_get(llist, llist.tail)
               IN /\ ~panicked'
                  /\ Last(order) = llist.tail
                  /\ ret'.val = Some(old_tail.value)
                  /\ ~ItemLive(llist', llist.tail)
                  /\ llist'.tail = old_tail.prev_index
                  /\ old_tail.prev_index # None =>
                       /\ LinkedList_get(llist', old_tail.prev_index).next_index = None
                       /\ llist'.head = llist.head
                  /\ old_tail.prev_index = None =>
                       llist'.head = None /\ llist'.tail = None
                  /\ Order(llist') = Front(order)
                  /\ BackOrder(llist') = Reverse(Front(order))
                  /\ Values(llist', Order(llist')) = Front(Values(llist, order))
     /\ ret'.op = "pop_front" =>
          IF LinkedList_len(llist) = 0
          THEN ret'.val = None /\ llist' = llist /\ ~panicked'
          ELSE LET order == Order(llist)
                   old_head == LinkedList_get(llist, llist.head)
               IN /\ ~panicked'
                  /\ ret'.val = Some(old_head.value)
                  /\ ~ItemLive(llist', llist.head)
                  /\ llist'.head = old_head.next_index
                  /\ old_head.next_index # None =>
                       /\ LinkedList_get(llist', old_head.next_index).prev_index = None
                       /\ llist'.tail = llist.tail
                  /\ old_head.next_index = None =>
                       llist'.head = None /\ llist'.tail = None
                  /\ Order(llist') = SubSeq(order, 2, Len(order))
                  /\ BackOrder(llist') = Reverse(SubSeq(order, 2, Len(order)))
                  /\ Values(llist', Order(llist')) =
                       SubSeq(Values(llist, order), 2, Len(order))
    ]_vars

\* a pop_back that returned the value of the last item of a list that had
\* held three
C28_Witness ==
  /\ ret.op = "pop_back"
  /\ ret.val # None
  /\ llist.head = None
  /\ llist.tail = None
  /\ Cardinality(issuedItems) = 3

\* C29: next_of_mut(index) returns what next_of(index) returns (None for
\* the tail), and prev_of_mut(index) what prev_of(index) returns.
C29_MutMatchesShared ==
  /\ ret.op = "next_of_mut" => ret.val = LinkedList_next_of(llist, ret.index)
  /\ ret.op = "prev_of_mut" => ret.val = LinkedList_prev_of(llist, ret.index)

\* C30: an extend_back step does not panic and ends; the values of self
\* from its head are then those it had followed by those of other in
\* other's list order; other has no items, no head and no tail; the vector
\* returned holds the indexes in self of the moved items, in that order.
C30_ExtendBackMovesAll ==
  [][ret'.op = "extend_back" =>
       LET before == Order(llist)
           moved == Order(other)
           after == Order(llist')
       IN /\ ~panicked'
          /\ Values(llist', after) = Values(llist, before) \o Values(other, moved)
          /\ LinkedList_len(other') = 0
          /\ other'.head = None
          /\ other'.tail = None
          /\ ret'.val = SubSeq(after, Len(before) + 1, Len(after))
          /\ Len(ret'.val) = Len(moved)
    ]_vars

(* ============ connected_components as a sequence of traversals ========= *)
\* the sets reachable from the seeds among keys[i..]: a key is a seed when
\* no set before it holds it
RECURSIVE SeedSets(_, _, _)
SeedSets(keys, i, seen) ==
  IF i > Len(keys) THEN <<>>
  ELSE IF keys[i] \in seen THEN SeedSets(keys, i + 1, seen)
  ELSE LET reached == ReachableFrom({keys[i]})
       IN <<reached>> \o SeedSets(keys, i + 1, seen \cup reached)

\* C31: connected_components() of a built graph returns, in nodes() order
\* of their seeds, the sets a fresh traversal yields from each seed (the
\* nodes reachable from it), a seed being a node no earlier set holds; every
\* set is non-empty and holds its seed, and there are at most node_count()
\* sets.
C31_ComponentsAreTraversals ==
  Returned("connected_components") =>
    /\ ret.val = SeedSets(SlotMap_keys(nodes), 1, {})
    /\ \A i \in 1..Len(ret.val) : ret.val[i] # {}
    /\ Len(ret.val) <= node_count

\* two seeds whose sets overlap: the later set was reached again from an
\* earlier node of nodes()
C31_Witness ==
  /\ Returned("connected_components")
  /\ \E i, j \in 1..Len(ret.val) :
       /\ i < j
       /\ ret.val[i] \cap ret.val[j] # {}
       /\ Cardinality(ret.val[j]) >= 2

(* ============ properties of a CategorizedGraph that shrinks ============ *)
\* C32: in every reachable state of a CategorizedGraph every EdgeID in the
\* connections of a live node resolves to a live edge that has the node as
\* its from or its to end.
C32_CategorizedConnectionsResolve ==
  \A n \in LiveNodes : \A i \in 1..Len(Connections(n)) :
    /\ EdgeLive(Connections(n)[i])
    /\ Touches(Connections(n)[i], n)

\* a remove_node has taken a node that held an edge to a node that lives on
C32_Witness ==
  /\ ret.op = "remove_node"
  /\ ret.val = "Ok"
  /\ Cardinality(issuedEdges) > SlotMap_len(edges)
  /\ node_count > 0
  /\ SlotMap_len(edges) > 0

\* C33: every name in the categories map refers to a live node, and
\* category(name) does not panic.
C33_CategoryNamesLive ==
  \A name \in CategoryNames :
    /\ name \in DOMAIN categories => NodeLive(categories[name])
    /\ ~category(name).panic

(* ================= well-formedness of the LinkedList =================== *)
\* C34: in every reachable state of the list, head is None iff tail is
\* None iff len() is 0; the head has no prev_index and the tail no
\* next_index; for live items x and y, y is the next_index of x exactly
\* when x is the prev_index of y; and the walk from head along next_index
\* visits every live item exactly once and ends at tail.
C34_ListWellFormed ==
  LET live == Range(SlotMap_keys(llist.items))
      order == Order(llist)
  IN /\ (llist.head = None) = (llist.tail = None)
     /\ (llist.head = None) = (LinkedList_len(llist) = 0)
     /\ llist.head # None =>
          /\ llist.head \in live
          /\ llist.tail \in live
          /\ LinkedList_get(llist, llist.head).prev_index = None
          /\ LinkedList_get(llist, llist.tail).next_index = None
          /\ Last(order) = llist.tail
     /\ \A x \in live : \A y \in live :
          (LinkedList_get(llist, x).next_index = y) =
            (LinkedList_get(llist, y).prev_index = x)
     /\ Range(order) = live
     /\ NoDuplicates(order)

\* a remove has taken the middle item of a list of three
C34_Witness ==
  /\ ret.op = "remove"
  /\ ~panicked
  /\ LinkedList_len(llist) = 2
  /\ LinkedList_get(llist, llist.head).next_index = llist.tail
  /\ ret.index \notin {llist.head, llist.tail}
  /\ ret.index \in issuedItems


(* =============== properties of the vector-backed list ================= *)
RECURSIVE VecWalk(_, _, _)
\* the indexes met from cur along next_index, at most fuel of them
VecWalk(l, cur, fuel) ==
  IF cur = None \/ fuel = 0 THEN <<>>
  ELSE IF ~VecHas(l.items, cur.some) THEN <<>>
  ELSE <<cur.some>> \o VecWalk(l, l.items[cur.some + 1].next_index, fuel - 1)

VecOrder(l) == VecWalk(l, l.head, Len(l.items) + 1)

VecValues(l) == [k \in 1..Len(VecOrder(l)) |-> l.items[VecOrder(l)[k] + 1].value]

\* head and tail are the ends of one chain through every item of the vector
VecWellFormed(l) ==
  LET order == VecOrder(l) IN
  /\ (l.head = None) = (l.tail = None)
  /\ (l.head = None) = (l.items = <<>>)
  /\ Len(order) = Len(l.items)
  /\ Cardinality(Range(order)) = Len(order)
  /\ l.head # None =>
       /\ l.tail = Some(Last(order))
       /\ l.items[Last(order) + 1].next_index = None
       /\ l.items[order[1] + 1].prev_index = None
  /\ \A k \in 1..(Len(order) - 1) : l.items[order[k + 1] + 1].prev_index = Some(order[k])

\* s with v put in behind its k-th element
InsertAt(s, k, v) == SubSeq(s, 1, k) \o <<v>> \o SubSeq(s, k + 1, Len(s))

\* s without its k-th element
RemoveAt(s, k) == SubSeq(s, 1, k - 1) \o SubSeq(s, k + 1, Len(s))

\* the place of index in the order
PlaceOf(order, index) == CHOOSE k \in 1..Len(order) : order[k] = index

\* what the call that r reports makes of the sequence s held in the order given
VecExpected(s, order, r) ==
  IF r.op = "push_back" THEN Append(s, r.value)
  ELSE IF r.op = "push_front" THEN <<r.value>> \o s
  ELSE IF r.op = "insert_after" THEN InsertAt(s, PlaceOf(order, r.index), r.value)
  ELSE IF r.op = "insert_before" THEN InsertAt(s, PlaceOf(order, r.index) - 1, r.value)
  ELSE IF r.op = "pop_back" THEN (IF s = <<>> THEN s ELSE Front(s))
  ELSE IF r.op = "pop_front" THEN (IF s = <<>> THEN s ELSE Tail(s))
  ELSE RemoveAt(s, PlaceOf(order, r.index))

\* the indexes the call that r reports takes out of the list l
VecTaken(l, r) ==
  IF r.op = "pop_back" /\ l.tail # None THEN {l.tail.some}
  ELSE IF r.op = "pop_front" /\ l.head # None THEN {l.head.some}
  ELSE IF r.op = "remove" THEN {r.index}
  ELSE {}

\* the call that r reports names, where it names one, an item of the list l
VecCallOn(l, r) ==
  r.op \in {"insert_after", "insert_before", "remove"} => r.index \in Range(VecOrder(l))

\* C35: the vector-backed LinkedList behaves as an abstract sequence: a call
\* of push_back, push_front, insert_after, insert_before, pop_back,
\* pop_front or remove on a well-formed list, naming an item of the list
\* where it names one, does not panic, leaves the list well-formed with the
\* values from head along next_index being those of the sequence after the
\* same call, and every index of an item it does not take out still names
\* an item with the same index and value.
C35_VecRefinesSequence ==
  [][(ret' # ret /\ VecWellFormed(vlist) /\ VecCallOn(vlist, ret')) =>
       /\ ~panicked'
       /\ VecWellFormed(vlist')
       /\ VecValues(vlist') = VecExpected(VecValues(vlist), VecOrder(vlist), ret')
       /\ \A i \in Range(VecOrder(vlist)) \ VecTaken(vlist, ret') :
            /\ VecHas(vlist'.items, i)
            /\ vlist'.items[i + 1].index = i
            /\ vlist'.items[i + 1].value = vlist.items[i + 1].value]_vars


(* ==================== properties of remove_nodes ====================== *)
\* the first k ids of the list
FirstIds(ids, k) == {ids[i] : i \in 1..k}

\* C36: remove_nodes(ids) removes the listed nodes in order and stops at
\* the first id whose remove_node fails, returning that error: for some k
\* the first k ids named live nodes that are now gone, the call returns
\* Ok when k is the length of the list and otherwise the error of the
\* next id (NodeNotFound exactly when that id named no node by then), and
\* every node named neither by those k ids nor by the failing one is as
\* it was.
C36_RemoveNodesStopsAtFirstError ==
  [][ret'.op = "remove_nodes" =>
       \E k \in 0..Len(ret'.ids) :
         /\ \A i \in 1..k :
              NodeLive(ret'.ids[i]) /\ ~SlotMap_contains_key(nodes', ret'.ids[i])
         /\ IF k = Len(ret'.ids)
            THEN /\ ret'.val = "Ok"
                 /\ \A id \in LiveNodes \ FirstIds(ret'.ids, k) :
                      SlotMap_get(nodes', id) = node(id)
            ELSE /\ ret'.val \in {"NodeNotFound", "EdgeNotFound"}
                 /\ (ret'.val = "NodeNotFound") =
                      (~NodeLive(ret'.ids[k + 1]) \/ ret'.ids[k + 1] \in FirstIds(ret'.ids, k))
                 /\ \A id \in LiveNodes \ FirstIds(ret'.ids, k + 1) :
                      SlotMap_get(nodes', id) = node(id)]_vars

\* a call that removed its first node, failed on the second id and left
\* the live node named third alone
C36_Witness ==
  /\ ret.op = "remove_nodes"
  /\ ret.val = "NodeNotFound"
  /\ Len(ret.ids) = 3
  /\ ret.ids[1] \in issuedNodes
  /\ ~NodeLive(ret.ids[1])
  /\ NodeLive(ret.ids[3])
  /\ ret.count = node_count + 1


(* ============== properties of an exhausted traversal ================== *)
\* C37: a depth-first traversal is exhausted for good: once next() has
\* returned None the work-stack is empty and one more call of next()
\* returns None again and leaves the iterator as it is; and while the
\* traversal runs the visited set is the set of the ids yielded so far.
C37_ExhaustedForGood ==
  (dfs.active /\ ~panicked) =>
    /\ dfs.visited = Range(yielded)
    /\ Exhausted =>
         /\ dfs.stack = <<>>
         /\ DepthFirstSearch_next(dfs) = [it |-> dfs, out |-> None, panic |-> FALSE]

\* a traversal that yielded two nodes, dropped an id it had met before and
\* then returned None
C37_Witness ==
  /\ ~panicked
  /\ Exhausted
  /\ Len(yielded) >= 2
  /\ dfs.cyclic


(* ================== properties of the cyclic flag ===================== *)
\* how often the j-th yielded node was pushed on the work-stack before it
\* was visited: once as the start node, and once for every listing of an
\* edge to it in the connections of a node yielded before it
PushesBeforeVisit(j) ==
  (IF yielded[j] = dfs.start THEN 1 ELSE 0)
  + Cardinality({ic \in UNION {{<<i, c>> : c \in 1..Len(Connections(yielded[i]))} :
                                 i \in 1..(j - 1)} :
                   edge(Connections(yielded[ic[1]])[ic[2]]).to = yielded[j]})

\* after exhaustion cyclic tells whether a node was pushed more than once
CyclicMeansPushedTwice ==
  (dfs.active /\ ~panicked /\ Exhausted) =>
    (dfs.cyclic = \E j \in 1..Len(yielded) : PushesBeforeVisit(j) >= 2)

\* C38: during a depth-first traversal a popped id that is already in the
\* visited set is discarded without being yielded and sets the cyclic flag,
\* and the flag is set in no other way: a call of next() leaves cyclic true
\* exactly when it was true or the id on top of the work-stack was visited,
\* and it yields no visited id; so after exhaustion cyclic is true exactly
\* when some node was pushed more than once before it was visited.
C38_CyclicFlag ==
  [][(dfs.active /\ ret'.op = "next" /\ ~panicked') =>
       /\ dfs'.cyclic = (dfs.cyclic \/ (dfs.stack # <<>> /\ Last(dfs.stack) \in dfs.visited))
       /\ ret'.val # None => ret'.val \notin dfs.visited
       /\ CyclicMeansPushedTwice']_vars

\* an exhausted traversal of a graph without a directed cycle that has set
\* the flag
C38_Witness ==
  /\ ~panicked
  /\ Exhausted
  /\ dfs.cyclic
  /\ \A e \in LiveEdges : edge(e).from.idx < edge(e).to.idx

====
